---- MODULE Spec2Model ----
(***************************************************************************)
(* FormFlare: the rate limiter (src/src/ratelimit.ts) and the submission   *)
(* store (src/src/storage.ts) over the two backends, the KV namespace      *)
(* (log backend) and the D1 database (table backend).                      *)
(*                                                                         *)
(* Every await of the code is one step of an invocation; invocations of    *)
(* different requests interleave at their awaits.                          *)
(***************************************************************************)
EXTENDS Integers, Sequences, FiniteSets, TLC

(***************************************************************************)
(* Bounds of the model.                                                    *)
(***************************************************************************)
\* concurrent invocations of checkRateLimit
MaxProcs == 2
\* checkRateLimit invocations in one behaviour
MaxCalls == 3
\* clock advances in one behaviour
MaxTicks == 2
\* granularity of the clock, in ms
TickMs == 500
\* backend operations that fail in one behaviour
MaxFaults == 1

\* storeSubmission invocations in one behaviour
MaxStores == 3
\* timestamps that requests take in one behaviour
MaxStamp == 2
\* largest limit passed to getSubmissions (-1 is passed as well)
MaxPage == 2
\* largest offset passed to getSubmissions (-1 is passed as well)
MaxOffset == 1
\* /submit requests in one behaviour
MaxSubmits == 2
\* submit events of the form in one behaviour
MaxAttempts == 3

MsPerSecond == 1000

\* the values of RATE_LIMIT_REQUESTS tried: a limit of MaxCalls is never reached
Limits == 0..(MaxCalls - 1)
\* the values of RATE_LIMIT_WINDOW tried, in seconds
Windows == {1, 2}

Identifiers == {"ip1", "ip2"}
Procs == 1..MaxProcs

(***************************************************************************)
(* A value that may be absent (null) is a sequence of length 0 or 1.       *)
(***************************************************************************)
Null == <<>>
Some(v) == <<v>>

\* Math.ceil(a / b) for b > 0
Ceil(a, b) == -((-a) \div b)

VARIABLES
    kvOn,        \* the KV binding FORM_SUBMISSIONS is configured
    dbOn,        \* the D1 binding DB is configured
    maxRequests, \* RATE_LIMIT_REQUESTS of the deployment
    windowSeconds, \* RATE_LIMIT_WINDOW of the deployment
    serial,      \* TRUE: requests arrive one after the other
    clock,       \* Date.now()
    ticks,       \* clock advances so far
    faults,      \* backend failures so far
    kvRate,      \* KV keys ratelimit:{identifier} -> {count, resetAt}, with expiration
    dbRate,      \* D1 table rate_limits: key -> (count, reset_at)
    rl,          \* the checkRateLimit invocations
    started,     \* number of checkRateLimit calls so far
    ret,         \* what the call that returned last returned
    seen         \* serial runs: per identifier, its returned calls and the first one's now

VARIABLES
    dbSub,       \* D1 table submissions, the rows in the order of their insertion
    kvSub,       \* KV keys submission:{formId}:{id} -> the JSON text of the submission
    kvIndex,     \* KV keys index:{formId} -> the array of ids
    st,          \* the storeSubmission invocations
    stored,      \* the submissions of the calls that returned an id, by id
    created,     \* per form, the returned ids in the order the calls returned
    issued,      \* the ids nanoid() has produced
    stamp,       \* the latest timestamp a request has taken
    stRet,       \* what the storeSubmission call that returned last returned
    got          \* the latest getSubmissions or getSubmission call and its result

VARIABLES
    emailOn,     \* EMAIL_PROVIDER names a provider (it is not 'none')
    sub,         \* the /submit request being handled
    requests,    \* number of /submit requests so far
    resp         \* the response to the /submit request answered last

VARIABLES
    rateEnv,     \* the variable RATE_LIMIT_ENABLED of the deployment, null when it is not set
    apiKey,      \* the secret API_KEY of the deployment, null when it is not set
    admin        \* the GET /submissions/:formId or GET /submission/:id request answered last

VARIABLES
    client       \* the form of the page, the events dispatched on it and the
                 \* handleSubmit invocation

VARIABLES
    page         \* the document that loads the client library: its forms, their
                 \* submit handlers, the library and its configuration

VARIABLES
    solo         \* per identifier, the backends and the results of the run in which
                 \* only the calls for that identifier are made

VARIABLES
    twin         \* the table backend in the run of the same calls made without the
                 \* log backend, and the result of its latest call

VARIABLES
    race         \* overlapping checkRateLimit calls: what each pending call has read,
                 \* and the calls that have returned

configVars == <<kvOn, dbOn, serial, rateEnv>>
raceVars == <<race>>
soloVars == <<solo, twin>>
clientVars == <<client, page>>
adminVars == <<apiKey, admin>>
rateVars == <<maxRequests, windowSeconds, clock, ticks, faults,
              kvRate, dbRate, rl, started, ret, seen>>
storeVars == <<dbSub, kvSub, kvIndex, st, stored, created, issued, stamp, stRet, got>>
\* the variables of the rate limiter but the count of failures
limiterVars == <<maxRequests, windowSeconds, clock, ticks,
                 kvRate, dbRate, rl, started, ret, seen>>
submitVars == <<emailOn, sub, requests, resp>>
vars == <<configVars, soloVars, adminVars, clientVars, raceVars, rateVars, storeVars, submitVars>>

(***************************************************************************)
(* The backends.                                                           *)
(***************************************************************************)
\* kv.get(key, 'json'): null when the key is absent or its expiration passed
KvGet(store, key, t) ==
    IF key \in DOMAIN store /\ t < store[key].expiration
    THEN Some([count |-> store[key].count, resetAt |-> store[key].resetAt])
    ELSE Null

\* a put that adds to the count stored at the time of the write
KvPutAdds(store, key, value, ttl, t) ==
    [k \in DOMAIN store \cup {key} |->
        IF k = key
        THEN [count |-> IF key \in DOMAIN store /\ value.count > 1
                        THEN store[key].count + 1 ELSE value.count,
              resetAt |-> value.resetAt,
              expiration |-> t + ttl * MsPerSecond]
        ELSE store[k]]

\* kv.put(key, value, {expirationTtl}) at time t
KvPut(store, key, value, ttl, t) ==
    [k \in DOMAIN store \cup {key} |->
        IF k = key
        THEN [count |-> value.count, resetAt |-> value.resetAt,
              expiration |-> t + ttl * MsPerSecond]
        ELSE store[k]]

\* SELECT count, reset_at FROM rate_limits WHERE key = ?
DbSelect(table, key) ==
    IF key \in DOMAIN table
    THEN Some([count |-> table[key].count, resetAt |-> table[key].reset_at])
    ELSE Null

\* DELETE FROM rate_limits WHERE key = ?
DbDelete(table, key) == [k \in DOMAIN table \ {key} |-> table[k]]

\* INSERT INTO rate_limits (key, count, reset_at) VALUES (?, ?, ?); key is the primary key
DbInsertFails(table, key) == key \in DOMAIN table
DbInsert(table, key, row) ==
    [k \in DOMAIN table \cup {key} |-> IF k = key THEN row ELSE table[k]]

\* UPDATE rate_limits SET count = count + 1 WHERE key = ?
DbUpdate(table, key) ==
    [k \in DOMAIN table |->
        IF k = key THEN [table[k] EXCEPT !.count = @ + 1] ELSE table[k]]

(***************************************************************************)
(* checkRateLimit: the decisions taken after the read.                     *)
(***************************************************************************)
\* a window that rolls over only after resetAt
WindowExpiredLate(existing, now) ==
    existing = Null \/ now > existing[1].resetAt

\* !existing || now >= existing.resetAt
WindowExpired(existing, now) ==
    existing = Null \/ now >= existing[1].resetAt

\* a limit that lets one request too many through
LimitExceededLate(count, limit) == count > limit

\* existing.count >= maxRequests
LimitExceeded(count, limit) == count >= limit

\* rounding down instead of up
RetryAfterFloor(resetAt, now) == (resetAt - now) \div MsPerSecond

\* Math.ceil((existing.resetAt - now) / 1000)
RetryAfter(resetAt, now) == Ceil(resetAt - now, MsPerSecond)

\* the window a call writes when it starts a new one
NewWindow(now, window) ==
    [count |-> 1, resetAt |-> now + window * MsPerSecond]

\* the result of the call, as decided after the read
Decision(existing, now, limit) ==
    IF WindowExpired(existing, now)
    THEN [allowed |-> TRUE, retryAfter |-> 0]
    ELSE IF LimitExceeded(existing[1].count, limit)
         THEN [allowed |-> FALSE, retryAfter |-> RetryAfter(existing[1].resetAt, now)]
         ELSE [allowed |-> TRUE, retryAfter |-> 0]

\* a sliding window: the increment starts the window again
KvPlanSlides(existing, now, limit, window) ==
    IF WindowExpired(existing, now)
    THEN << [op |-> "put", value |-> NewWindow(now, window), ttl |-> window] >>
    ELSE IF LimitExceeded(existing[1].count, limit)
         THEN << >>
         ELSE << [op |-> "put",
                  value |-> [count |-> existing[1].count + 1,
                             resetAt |-> now + window * MsPerSecond],
                  ttl |-> window] >>

\* counting a request before it is checked against the limit
KvPlanCountsDenied(existing, now, limit, window) ==
    IF WindowExpired(existing, now)
    THEN << [op |-> "put", value |-> NewWindow(now, window), ttl |-> window] >>
    ELSE << [op |-> "put",
             value |-> [count |-> existing[1].count + 1,
                        resetAt |-> existing[1].resetAt],
             ttl |-> RetryAfter(existing[1].resetAt, now)] >>

\* the puts the KV branch issues after the read
KvPlan(existing, now, limit, window) ==
    IF WindowExpired(existing, now)
    THEN << [op |-> "put", value |-> NewWindow(now, window), ttl |-> window] >>
    ELSE IF LimitExceeded(existing[1].count, limit)
         THEN << >>
         ELSE << [op |-> "put",
                  value |-> [count |-> existing[1].count + 1,
                             resetAt |-> existing[1].resetAt],
                  ttl |-> RetryAfter(existing[1].resetAt, now)] >>

\* an increment that writes back the count read plus one
DbPlanWritesBack(existing, now, limit, window) ==
    IF WindowExpired(existing, now)
    THEN (IF existing # Null THEN << [op |-> "delete"] >> ELSE << >>)
         \o << [op |-> "insert",
                row |-> [count |-> 1, reset_at |-> now + window * MsPerSecond]] >>
    ELSE IF LimitExceeded(existing[1].count, limit)
         THEN << >>
         ELSE << [op |-> "delete"],
                 [op |-> "insert",
                  row |-> [count |-> existing[1].count + 1,
                           reset_at |-> existing[1].resetAt]] >>

\* the statements the D1 branch runs after the SELECT
DbPlan(existing, now, limit, window) ==
    IF WindowExpired(existing, now)
    THEN (IF existing # Null THEN << [op |-> "delete"] >> ELSE << >>)
         \o << [op |-> "insert",
                row |-> [count |-> 1, reset_at |-> now + window * MsPerSecond]] >>
    ELSE IF LimitExceeded(existing[1].count, limit)
         THEN << >>
         ELSE << [op |-> "update"] >>

\* failing closed
NoStorageDenies == [allowed |-> FALSE, retryAfter |-> 0]

\* the result when neither backend is configured
NoStorageResult == [allowed |-> TRUE, retryAfter |-> 0]

DbCatchDenies == [allowed |-> FALSE, retryAfter |-> 0]

\* the result of the catch around the D1 branch
DbCatch == [allowed |-> TRUE, retryAfter |-> 0]

\* one key for every identifier
RateKeyShared(identifier) == <<"ratelimit">>

\* `ratelimit:${identifier}`
RateKey(identifier) == <<"ratelimit", identifier>>

\* the table backend taking precedence over the log backend
UsesKvUnlessDb == kvOn /\ ~dbOn

\* if (kv) ... else if (db): the KV branch is taken whenever KV is configured
UsesKv == kvOn

\* the window stored for an identifier on the backend checkRateLimit uses, whether
\* or not its KV expiration has passed
Stored(kv, db, identifier) ==
    LET key == RateKey(identifier)
    IN  IF UsesKv
        THEN (IF key \in DOMAIN kv
              THEN Some([count |-> kv[key].count, resetAt |-> kv[key].resetAt])
              ELSE Null)
        ELSE DbSelect(db, key)

Idle == [pc |-> "idle", identifier |-> "ip1", now |-> 0, prev |-> Null,
         plan |-> << >>, result |-> [allowed |-> TRUE, retryAfter |-> 0],
         wrote |-> FALSE]

InFlight == {p \in Procs : rl[p].pc # "idle"}

\* invocations are anonymous: a request takes the free slot with the lowest number
FreeSlot(p) ==
    /\ rl[p].pc = "idle"
    /\ \A q \in Procs : q < p => rl[q].pc # "idle"

\* identifiers are interchangeable: the first request of a run comes from this one
FirstCaller == "ip1"

\* the call of p returns: it is recorded, and p is free for the next request
Return(p, r, result, outcome, failedOp) ==
    /\ rl' = [rl EXCEPT ![p] = Idle]
    /\ ret' = [identifier |-> r.identifier, allowed |-> result.allowed,
               retryAfter |-> result.retryAfter, outcome |-> outcome,
               failedOp |-> failedOp]
    /\ seen' = IF serial
               THEN [seen EXCEPT ![r.identifier] =
                        IF @.n = 0 THEN [n |-> 1, first |-> r.now]
                        ELSE [@ EXCEPT !.n = @ + 1]]
               ELSE seen

(***************************************************************************)
(* checkRateLimit, step by step.                                           *)
(***************************************************************************)
\* a request arrives and checkRateLimit reads Date.now(); it then awaits the read
RlStart(p, identifier) ==
    /\ kvOn \/ dbOn
    /\ FreeSlot(p)
    /\ started < MaxCalls
    /\ started = 0 => identifier = FirstCaller
    /\ serial => InFlight = {}
    /\ started' = started + 1
    /\ rl' = [rl EXCEPT ![p] = [Idle EXCEPT !.pc = "read",
                                             !.identifier = identifier,
                                             !.now = clock,
                                             !.prev = IF serial
                                                      THEN Stored(kvRate, dbRate, identifier)
                                                      ELSE Null]]
    /\ UNCHANGED <<maxRequests, windowSeconds, clock, ticks,
                   faults, kvRate, dbRate, ret, seen>>

\* neither backend is configured: every request is allowed
RlNoStorage(p, identifier) ==
    /\ ~kvOn /\ ~dbOn
    /\ FreeSlot(p)
    /\ started < MaxCalls
    /\ started = 0 => identifier = FirstCaller
    /\ started' = started + 1
    /\ Return(p, [Idle EXCEPT !.identifier = identifier, !.now = clock],
              NoStorageResult, "ok", "none")
    /\ UNCHANGED <<maxRequests, windowSeconds, clock, ticks,
                   faults, kvRate, dbRate>>

\* the read completes (kv.get, or the SELECT) and the code decides
RlRead(p) ==
    /\ rl[p].pc = "read"
    /\ LET r == rl[p]
           existing == IF UsesKv THEN KvGet(kvRate, RateKey(r.identifier), clock)
                       ELSE DbSelect(dbRate, RateKey(r.identifier))
           plan == IF UsesKv THEN KvPlan(existing, r.now, maxRequests, windowSeconds)
                   ELSE DbPlan(existing, r.now, maxRequests, windowSeconds)
           result == Decision(existing, r.now, maxRequests)
       IN  IF plan = << >>
           THEN Return(p, r, result, "ok", "none")
           ELSE /\ rl' = [rl EXCEPT ![p] = [r EXCEPT !.pc = "write",
                                                     !.plan = plan,
                                                     !.result = result]]
                /\ UNCHANGED <<ret, seen>>
    /\ UNCHANGED <<maxRequests, windowSeconds, clock, ticks,
                   faults, kvRate, dbRate, started>>

\* the effect of one write of the plan on the backends
Apply(op, key) ==
    CASE op.op = "put" ->
            /\ kvRate' = KvPut(kvRate, key, op.value, op.ttl, clock)
            /\ UNCHANGED dbRate
      [] op.op = "delete" ->
            /\ dbRate' = DbDelete(dbRate, key)
            /\ UNCHANGED kvRate
      [] op.op = "insert" ->
            /\ dbRate' = DbInsert(dbRate, key, op.row)
            /\ UNCHANGED kvRate
      [] op.op = "update" ->
            /\ dbRate' = DbUpdate(dbRate, key)
            /\ UNCHANGED kvRate

\* the next write of the plan completes (kv.put, or DELETE, INSERT, UPDATE)
RlWrite(p) ==
    /\ rl[p].pc = "write"
    /\ LET r == rl[p]
           op == Head(r.plan)
           key == RateKey(r.identifier)
       IN  IF op.op = "insert" /\ DbInsertFails(dbRate, key)
           THEN \* the primary key exists: INSERT throws, the catch allows the request
                /\ Return(p, r, DbCatch, "caught", "insert")
                /\ UNCHANGED <<kvRate, dbRate>>
           ELSE /\ Apply(op, key)
                /\ IF Tail(r.plan) = << >>
                   THEN Return(p, r, r.result, "ok", "none")
                   ELSE /\ rl' = [rl EXCEPT ![p] = [r EXCEPT !.plan = Tail(r.plan),
                                                             !.wrote = TRUE]]
                        /\ UNCHANGED <<ret, seen>>
    /\ UNCHANGED <<maxRequests, windowSeconds, clock, ticks,
                   faults, started>>

\* the backend operation p is waiting for
PendingOp(r) ==
    IF r.pc = "read" THEN (IF UsesKv THEN "get" ELSE "select") ELSE Head(r.plan).op

\* the pending backend operation of p fails: the D1 branch catches the error and
\* allows the request, the KV branch has no catch and the error leaves checkRateLimit
RlFault(p) ==
    /\ rl[p].pc \in {"read", "write"}
    /\ faults < MaxFaults
    /\ faults' = faults + 1
    /\ IF UsesKv
       THEN Return(p, rl[p], [allowed |-> FALSE, retryAfter |-> 0], "threw",
                   PendingOp(rl[p]))
       ELSE Return(p, rl[p], DbCatch, "caught", PendingOp(rl[p]))
    /\ UNCHANGED <<maxRequests, windowSeconds, clock, ticks,
                   kvRate, dbRate, started>>

\* time passes
Tick ==
    /\ ticks < MaxTicks
    /\ ticks' = ticks + 1
    /\ clock' = clock + TickMs
    /\ UNCHANGED <<maxRequests, windowSeconds, faults,
                   kvRate, dbRate, rl, started, ret, seen>>

(***************************************************************************)
(* Strings are sequences of characters; KV lists its keys in the order of  *)
(* their bytes.                                                            *)
(***************************************************************************)
Code(c) ==
    CASE c = "0" -> 48 [] c = ":" -> 58
      [] c = "a" -> 97 [] c = "b" -> 98 [] c = "d" -> 100 [] c = "e" -> 101
      [] c = "f" -> 102 [] c = "g" -> 103 [] c = "i" -> 105 [] c = "m" -> 109
      [] c = "n" -> 110 [] c = "o" -> 111 [] c = "s" -> 115 [] c = "u" -> 117
      [] c = "x" -> 120 [] c = "z" -> 122

Min(S) == CHOOSE x \in S : \A y \in S : x <= y

\* a < b in the order of the bytes
StrLess(a, b) ==
    LET n == IF Len(a) < Len(b) THEN Len(a) ELSE Len(b)
        d == {i \in 1..n : a[i] # b[i]}
    IN  IF d = {} THEN Len(a) < Len(b)
        ELSE Code(a[Min(d)]) < Code(b[Min(d)])

\* s.endsWith(suffix)
EndsWith(s, suffix) ==
    /\ Len(suffix) <= Len(s)
    /\ SubSeq(s, Len(s) - Len(suffix) + 1, Len(s)) = suffix

\* the form ids of the requests
FormIds == {<<"f">>, <<"g">>}

\* the ids nanoid() may produce
Ids == {<<"0">>, <<"a">>, <<"z">>}

\* `submission:${formId}:${id}`
SubmissionKey(formId, id) ==
    <<"s", "u", "b", "m", "i", "s", "s", "i", "o", "n", ":">> \o formId \o <<":">> \o id

\* `index:${formId}`
IndexKey(formId) == <<"i", "n", "d", "e", "x", ":">> \o formId

\* the last 1000 submissions are kept in the index (scaled)
IndexCap == 2

\* the keys one kv.list() call returns: 1000 (scaled)
ListLimit == 2

(***************************************************************************)
(* JSON.stringify and JSON.parse. A property whose value is undefined is   *)
(* left out of the text; reading a property the text lacks gives undefined.*)
(***************************************************************************)
Undefined == "undefined"

MetadataKeys == {"ip", "userAgent", "timestamp", "turnstileScore"}

\* the properties of a metadata object that JSON.stringify writes
Written(metadata) ==
    IF metadata.turnstileScore = Undefined
    THEN MetadataKeys \ {"turnstileScore"}
    ELSE MetadataKeys

StringifyMetadata(metadata) ==
    <<"json", [k \in Written(metadata) |-> metadata[k]]>>

ParseMetadata(text) ==
    [k \in MetadataKeys |-> IF k \in DOMAIN text[2] THEN text[2][k] ELSE Undefined]

StringifyData(data) == <<"json", data>>
ParseData(text) == text[2]

\* JSON.stringify(storedSubmission)
StringifySubmission(s) ==
    <<"json", [id |-> s.id, formId |-> s.formId, data |-> s.data,
               metadata |-> [k \in Written(s.metadata) |-> s.metadata[k]]]>>

\* kv.get(key, 'json') of a submission record
ParseSubmission(text) ==
    [id |-> text[2].id, formId |-> text[2].formId, data |-> text[2].data,
     metadata |-> [k \in MetadataKeys |->
                     IF k \in DOMAIN text[2].metadata THEN text[2].metadata[k]
                     ELSE Undefined]]

\* the payloads of the requests
Payloads ==
    { [data |-> [name |-> "A"], turnstileScore |-> Undefined],
      [data |-> [name |-> "B"], turnstileScore |-> "0.9"] }

\* submissionData of /submit
Submission(formId, payload, timestamp) ==
    [formId |-> formId,
     data |-> payload.data,
     metadata |-> [ip |-> "ip1", userAgent |-> "unknown", timestamp |-> timestamp,
                   turnstileScore |-> payload.turnstileScore]]

\* storedSubmission = {id: submissionId, ...submission}
StoredSubmission(id, submission) ==
    [id |-> id, formId |-> submission.formId, data |-> submission.data,
     metadata |-> submission.metadata]

(***************************************************************************)
(* The submissions on the backends.                                        *)
(***************************************************************************)
\* the row of INSERT INTO submissions (id, form_id, data, metadata, created_at)
Row(id, submission) ==
    [id |-> id, form_id |-> submission.formId,
     data |-> StringifyData(submission.data),
     metadata |-> StringifyMetadata(submission.metadata),
     created_at |-> submission.metadata.timestamp]

\* a row as getSubmissions and getSubmission return it
FromRow(row) ==
    [id |-> row.id, formId |-> row.form_id, data |-> ParseData(row.data),
     metadata |-> ParseMetadata(row.metadata)]

\* kv.put(key, value) on a map of keys
Put(store, key, value) ==
    [k \in DOMAIN store \cup {key} |-> IF k = key THEN value ELSE store[k]]

\* kv.get(indexKey, 'json') as string[] || []
ReadIndex(index, formId) ==
    IF IndexKey(formId) \in DOMAIN index THEN index[IndexKey(formId)] ELSE << >>

\* array.slice(start, end)
Slice(array, start, end) ==
    LET len == Len(array)
        from == IF start < 0 THEN (IF len + start < 0 THEN 0 ELSE len + start)
                ELSE (IF start > len THEN len ELSE start)
        to == IF end < 0 THEN (IF len + end < 0 THEN 0 ELSE len + end)
              ELSE (IF end > len THEN len ELSE end)
    IN  SubSeq(array, from + 1, to)

\* an index that keeps one id too many
TrimmedLate(existingIndex, id) == Slice(<<id>> \o existingIndex, 0, IndexCap + 1)

\* existingIndex.unshift(submissionId); existingIndex.slice(0, 1000)
Trimmed(existingIndex, id) == Slice(<<id>> \o existingIndex, 0, IndexCap)

\* the keys of a set in the order of their bytes
RECURSIVE Sorted(_)
Sorted(keys) ==
    IF keys = {} THEN << >>
    ELSE LET first == CHOOSE k \in keys : \A o \in keys \ {k} : StrLess(k, o)
         IN  <<first>> \o Sorted(keys \ {first})

\* (await kv.list({prefix: 'submission:'})).keys: the first page of the keys
ListKeys(store) == Slice(Sorted(DOMAIN store), 0, ListLimit)

\* getSubmission on KV: the first listed key that ends with `:${submissionId}`
KvFind(store, submissionId) ==
    LET keys == ListKeys(store)
        hits == {i \in 1..Len(keys) : EndsWith(keys[i], <<":">> \o submissionId)}
    IN  IF hits = {} THEN Null
        ELSE Some(ParseSubmission(store[keys[Min(hits)]]))

\* getSubmissions on KV: the slice of the index, and the records that exist
RECURSIVE Fetch(_, _, _)
Fetch(store, formId, ids) ==
    IF ids = << >> THEN << >>
    ELSE (IF SubmissionKey(formId, Head(ids)) \in DOMAIN store
          THEN <<ParseSubmission(store[SubmissionKey(formId, Head(ids))])>>
          ELSE << >>)
         \o Fetch(store, formId, Tail(ids))

\* index.slice(offset, limit): the end of the slice is not moved by the offset
KvPageEndsAtLimit(store, index, formId, limit, offset) ==
    Fetch(store, formId, Slice(ReadIndex(index, formId), offset, limit))

KvPage(store, index, formId, limit, offset) ==
    Fetch(store, formId, Slice(ReadIndex(index, formId), offset, offset + limit))

\* SELECT ... WHERE id = ?
DbFind(rows, submissionId) ==
    LET hits == {i \in 1..Len(rows) : rows[i].id = submissionId}
    IN  IF hits = {} THEN Null ELSE Some(FromRow(rows[Min(hits)]))

\* the orders in which WHERE form_id = ? ORDER BY created_at DESC may return the
\* rows: rows with equal created_at come in an order SQL leaves open
Orderings(rows, formId) ==
    LET match == {i \in 1..Len(rows) : rows[i].form_id = formId}
        n == Cardinality(match)
    IN  { o \in [1..n -> match] :
            /\ \A i, j \in 1..n : i # j => o[i] # o[j]
            /\ \A i, j \in 1..n :
                  i < j => rows[o[i]].created_at >= rows[o[j]].created_at }

\* LIMIT ? OFFSET ?: a negative LIMIT is no limit, a negative OFFSET is 0
DbPage(rows, order, limit, offset) ==
    LET n == Len(order)
        from == IF offset < 0 THEN 0 ELSE (IF offset > n THEN n ELSE offset)
        to == IF limit < 0 \/ from + limit > n THEN n ELSE from + limit
    IN  [i \in 1..(to - from) |-> FromRow(rows[order[from + i]])]

(***************************************************************************)
(* storeSubmission, step by step.                                          *)
(***************************************************************************)
StIdle == [pc |-> "idle", id |-> <<"0">>,
           submission |-> Submission(<<"f">>, [data |-> [name |-> "A"],
                                               turnstileScore |-> Undefined], 0),
           existingIndex |-> << >>]

NoRead == [op |-> "none", formId |-> <<"f">>, submissionId |-> <<"0">>,
           limit |-> 0, offset |-> 0, backend |-> "none", failed |-> FALSE,
           outcome |-> "none", result |-> << >>, status |-> 0]

\* the log backend taking precedence over the table backend
BackendKvFirst == IF kvOn THEN "kv" ELSE IF dbOn THEN "db" ELSE "none"

\* if (db) ... else if (kv) ...: the backend the three functions of the store use
Backend == IF dbOn THEN "db" ELSE IF kvOn THEN "kv" ELSE "none"

Storing == {p \in Procs : st[p].pc # "idle"}

\* a request takes the free slot with the lowest number
FreeStoreSlot(p) ==
    /\ st[p].pc = "idle"
    /\ \A q \in Procs : q < p => st[q].pc # "idle"

\* storeSubmission returns the id
StReturn(p) ==
    /\ st' = [st EXCEPT ![p] = StIdle]
    /\ stRet' = [outcome |-> "ok", id |-> st[p].id, failedOp |-> "none"]
    /\ stored' = Put(stored, st[p].id, StoredSubmission(st[p].id, st[p].submission))
    /\ created' = [created EXCEPT ![st[p].submission.formId] = Append(@, st[p].id)]

\* /submit takes the timestamp and calls storeSubmission, which draws the id and
\* awaits its first write
StStart(p, formId, payload, timestamp, id) ==
    /\ kvOn \/ dbOn
    /\ FreeStoreSlot(p)
    /\ Cardinality(issued) < MaxStores
    /\ serial => Storing = {}
    /\ id \notin issued
    /\ timestamp \in {stamp, stamp + 1}
    /\ timestamp >= 1 /\ timestamp <= MaxStamp
    /\ issued' = issued \cup {id}
    /\ stamp' = timestamp
    /\ st' = [st EXCEPT ![p] = [pc |-> IF Backend = "db" THEN "insert" ELSE "putRecord",
                                id |-> id,
                                submission |-> Submission(formId, payload, timestamp),
                                existingIndex |-> << >>]]
    /\ got' = NoRead
    /\ UNCHANGED <<dbSub, kvSub, kvIndex, stored, created, stRet>>

\* storeSubmission returning an id although nothing was stored
NoBackendStoreReturnsId(id) == [outcome |-> "ok", id |-> id, failedOp |-> "none"]

\* throw new Error('No storage backend configured')
NoBackendStore(id) == [outcome |-> "threw", id |-> id, failedOp |-> "none"]

\* neither backend is configured: storeSubmission throws
StNoStorage(p) ==
    /\ ~kvOn /\ ~dbOn
    /\ FreeStoreSlot(p)
    /\ Cardinality(issued) < MaxStores
    /\ \E id \in Ids \ issued :
          /\ issued' = issued \cup {id}
          /\ stRet' = NoBackendStore(id)
    /\ got' = NoRead
    /\ UNCHANGED <<dbSub, kvSub, kvIndex, st, stored, created, stamp>>

\* the INSERT completes
StInsert(p) ==
    /\ st[p].pc = "insert"
    /\ dbSub' = Append(dbSub, Row(st[p].id, st[p].submission))
    /\ StReturn(p)
    /\ UNCHANGED <<kvSub, kvIndex, issued, stamp, got>>

\* the record is not written before the index is read and rewritten
StPutRecordSkipped(p) ==
    /\ st[p].pc = "putRecord"
    /\ st' = [st EXCEPT ![p].pc = "getIndex"]
    /\ UNCHANGED <<dbSub, kvSub, kvIndex, stored, created, issued, stamp, stRet, got>>

\* the put of the record completes
StPutRecord(p) ==
    /\ st[p].pc = "putRecord"
    /\ kvSub' = Put(kvSub, SubmissionKey(st[p].submission.formId, st[p].id),
                    StringifySubmission(StoredSubmission(st[p].id, st[p].submission)))
    /\ st' = [st EXCEPT ![p].pc = "getIndex"]
    /\ UNCHANGED <<dbSub, kvIndex, stored, created, issued, stamp, stRet, got>>

\* the get of the index completes
StGetIndex(p) ==
    /\ st[p].pc = "getIndex"
    /\ st' = [st EXCEPT ![p].pc = "putIndex",
                        ![p].existingIndex = ReadIndex(kvIndex, st[p].submission.formId)]
    /\ UNCHANGED <<dbSub, kvSub, kvIndex, stored, created, issued, stamp, stRet, got>>

\* the put of the index completes
StPutIndex(p) ==
    /\ st[p].pc = "putIndex"
    /\ kvIndex' = Put(kvIndex, IndexKey(st[p].submission.formId),
                      Trimmed(st[p].existingIndex, st[p].id))
    /\ StReturn(p)
    /\ UNCHANGED <<dbSub, kvSub, issued, stamp, got>>

\* the awaited backend operation of p (the INSERT, the put of the record, the get
\* or the put of the index) fails: storeSubmission has no catch, the error leaves it
StFault(p) ==
    /\ st[p].pc # "idle"
    /\ faults < MaxFaults
    /\ faults' = faults + 1
    /\ st' = [st EXCEPT ![p] = StIdle]
    /\ stRet' = [outcome |-> "threw", id |-> st[p].id, failedOp |-> st[p].pc]
    /\ UNCHANGED <<dbSub, kvSub, kvIndex, stored, created, issued, stamp, got>>

(***************************************************************************)
(* getSubmissions and getSubmission. No submission is ever rewritten or    *)
(* removed, so the reads of one call are taken together; they are made     *)
(* while no storeSubmission call is pending. A read changes nothing that a *)
(* later read returns: reads are taken from the states that record none.   *)
(***************************************************************************)
\* a read without a backend raising an error, as storeSubmission does
NoBackendReadThrows == [outcome |-> "threw", result |-> << >>]

\* neither backend is configured: return [] of getSubmissions, return null of
\* getSubmission
NoBackendRead == [outcome |-> "ok", result |-> << >>]

\* a failed read answered as if nothing was found
ReadFailureSwallowed == [outcome |-> "ok", result |-> << >>]

\* an awaited read of the backend rejects, or JSON.parse throws: neither function
\* has a catch, the error leaves it
ReadFailure == [outcome |-> "threw", result |-> << >>]

\* what a call whose backend operations succeed may come to
Outcomes(results) ==
    IF Backend = "none" THEN {NoBackendRead}
    ELSE {[outcome |-> "ok", result |-> r] : r \in results}

\* GET /submissions/:formId answers 200 with the list, 500 from its catch
ListStatus(read) == IF read.outcome = "threw" THEN 500 ELSE 200

\* GET /submission/:id answers 404 for null, 200 with the record, 500 from its catch
GetStatus(read) ==
    IF read.outcome = "threw" THEN 500
    ELSE IF read.result = Null THEN 404 ELSE 200

GetSubmissions(formId, limit, offset) ==
    /\ Storing = {}
    /\ got.op = "none"
    /\ \E read \in Outcomes(
            IF Backend = "db"
            THEN {DbPage(dbSub, order, limit, offset) : order \in Orderings(dbSub, formId)}
            ELSE {KvPage(kvSub, kvIndex, formId, limit, offset)}) :
          got' = [NoRead EXCEPT !.op = "list", !.formId = formId, !.limit = limit,
                                !.offset = offset, !.backend = Backend,
                                !.outcome = read.outcome, !.result = read.result,
                                !.status = ListStatus(read)]
    /\ UNCHANGED <<dbSub, kvSub, kvIndex, st, stored, created, issued, stamp, stRet>>

GetSubmission(submissionId) ==
    /\ Storing = {}
    /\ got.op = "none"
    /\ \E read \in Outcomes(
            IF Backend = "db" THEN {DbFind(dbSub, submissionId)}
            ELSE {KvFind(kvSub, submissionId)}) :
          got' = [NoRead EXCEPT !.op = "get", !.submissionId = submissionId,
                                !.backend = Backend,
                                !.outcome = read.outcome, !.result = read.result,
                                !.status = GetStatus(read)]
    /\ UNCHANGED <<dbSub, kvSub, kvIndex, st, stored, created, issued, stamp, stRet>>

\* getSubmissions is called and an awaited read of its backend fails
GetSubmissionsFails(formId, limit, offset) ==
    /\ Storing = {}
    /\ got.op = "none"
    /\ Backend # "none"
    /\ got' = [NoRead EXCEPT !.op = "list", !.formId = formId, !.limit = limit,
                             !.offset = offset, !.backend = Backend, !.failed = TRUE,
                             !.outcome = ReadFailure.outcome,
                             !.result = ReadFailure.result,
                             !.status = ListStatus(ReadFailure)]
    /\ UNCHANGED <<dbSub, kvSub, kvIndex, st, stored, created, issued, stamp, stRet>>

\* getSubmission is called and an awaited read of its backend fails
GetSubmissionFails(submissionId) ==
    /\ Storing = {}
    /\ got.op = "none"
    /\ Backend # "none"
    /\ got' = [NoRead EXCEPT !.op = "get", !.submissionId = submissionId,
                             !.backend = Backend, !.failed = TRUE,
                             !.outcome = ReadFailure.outcome,
                             !.result = ReadFailure.result,
                             !.status = GetStatus(ReadFailure)]
    /\ UNCHANGED <<dbSub, kvSub, kvIndex, st, stored, created, issued, stamp, stRet>>

(***************************************************************************)
(* GET /submissions/:formId and GET /submission/:id (src/src/index.ts):    *)
(* the check of the Authorization header, then the read.                   *)
(***************************************************************************)
Bearer == <<"B", "e", "a", "r", "e", "r">>
Basic == <<"B", "a", "s", "i", "c">>
Space == <<" ">>

\* s.startsWith(prefix)
StartsWith(s, prefix) ==
    /\ Len(prefix) <= Len(s)
    /\ SubSeq(s, 1, Len(prefix)) = prefix

\* s.split(' ')
RECURSIVE Split(_)
Split(s) ==
    LET spaces == {i \in 1..Len(s) : s[i] = " "}
    IN  IF spaces = {} THEN <<s>>
        ELSE <<SubSeq(s, 1, Min(spaces) - 1)>> \o Split(SubSeq(s, Min(spaces) + 1, Len(s)))

\* the values of API_KEY: not set, the empty string, a key, a key with a space in it
ApiKeys == {Null, Some(<< >>), Some(<<"k">>), Some(<<"k", " ", "x">>)}

\* the Authorization headers of the requests: none, and texts with and without the
\* scheme, the key and further words
Headers ==
    {Null, Some(<< >>), Some(Bearer), Some(Bearer \o Space),
     Some(Bearer \o Space \o <<"k">>), Some(Bearer \o Space \o <<"x">>),
     Some(Bearer \o Space \o <<"k", " ", "x">>),
     Some(Bearer \o Space \o Space \o <<"k">>),
     Some(Basic \o Space \o <<"k">>), Some(<<"k">>)}

\* !apiKey
KeyMissing(key) == key = Null \/ key[1] = << >>

\* the check of the earlier version of the handlers: any Bearer header passes
AuthorizedByPrefix(header, key) ==
    /\ header # Null /\ header[1] # << >>
    /\ StartsWith(header[1], Bearer \o Space)

\* authHeader && authHeader.startsWith('Bearer ') && authHeader.split(' ')[1] === apiKey
Authorized(header, key) ==
    /\ header # Null /\ header[1] # << >>
    /\ StartsWith(header[1], Bearer \o Space)
    /\ Len(Split(header[1])) >= 2
    /\ Split(header[1])[2] = key[1]

NoRequest == [route |-> "none", header |-> Null, status |-> 0, read |-> FALSE,
              data |-> << >>]

\* what the handler answers before it reads: 500 'API key not configured', 401
\* 'Unauthorized', or nothing yet
Refusal(header) ==
    IF KeyMissing(apiKey) THEN 500
    ELSE IF ~Authorized(header, apiKey) THEN 401
    ELSE 0

\* the handler has awaited its read: the answer carries what the read returned
Answer(route, header) ==
    [route |-> route, header |-> header, status |-> got'.status, read |-> TRUE,
     data |-> got'.result]

\* GET /submissions/:formId?limit=&offset=
AdminList(header, formId, limit, offset) ==
    /\ admin.route = "none"
    /\ IF Refusal(header) # 0
       THEN /\ admin' = [NoRequest EXCEPT !.route = "list", !.header = header,
                                          !.status = Refusal(header)]
            /\ UNCHANGED storeVars
       ELSE /\ \/ GetSubmissions(formId, limit, offset)
               \/ GetSubmissionsFails(formId, limit, offset)
            /\ admin' = Answer("list", header)
    /\ UNCHANGED apiKey

\* GET /submission/:id
AdminGet(header, submissionId) ==
    /\ admin.route = "none"
    /\ IF Refusal(header) # 0
       THEN /\ admin' = [NoRequest EXCEPT !.route = "get", !.header = header,
                                          !.status = Refusal(header)]
            /\ UNCHANGED storeVars
       ELSE /\ \/ GetSubmission(submissionId)
               \/ GetSubmissionFails(submissionId)
            /\ admin' = Answer("get", header)
    /\ UNCHANGED apiKey

(***************************************************************************)
(* POST /submit (src/src/index.ts). Requests are handled one after the     *)
(* other and come from one client; the handler calls checkRateLimit,       *)
(* verifyTurnstile, storeSubmission and sendEmailNotification and awaits   *)
(* each of them.                                                           *)
(***************************************************************************)
True == <<"t", "r", "u", "e">>

\* the values of RATE_LIMIT_ENABLED: not set, 'true', 'True', 'false'
RateEnvs == {Null, Some(True), Some(<<"T", "r", "u", "e">>),
             Some(<<"f", "a", "l", "s", "e">>)}

LowerChar(c) ==
    CASE c = "T" -> "t" [] c = "R" -> "r" [] c = "U" -> "u" [] c = "E" -> "e"
      [] OTHER -> c

\* s.toLowerCase()
ToLowerCase(s) == [i \in 1..Len(s) |-> LowerChar(s[i])]

\* rate limiting switched on by any value that is set
EnabledWhenSet == rateEnv # Null /\ rateEnv[1] # << >>

\* c.env.RATE_LIMIT_ENABLED?.toLowerCase() === 'true'
rateLimitEnabled == rateEnv # Null /\ ToLowerCase(rateEnv[1]) = True

SubIdle == [pc |-> "idle", formId |-> <<"f">>, data |-> [name |-> "A"],
            id |-> <<"0">>, calls |-> << >>, body |-> "none", verdict |-> "none"]

NoResponse == [status |-> 0, success |-> FALSE, submissionId |-> Null,
               retryAfter |-> 0, calls |-> << >>, email |-> "none",
               body |-> "none", verdict |-> "none"]

\* a failed request answered as a success
InternalErrorSwallowed == [NoResponse EXCEPT !.status = 200, !.success = TRUE]

\* the catch of the handler: 500 'Internal server error'
InternalError == [NoResponse EXCEPT !.status = 500]

\* 429 'Rate limit exceeded'
RateLimited(retryAfter) == [NoResponse EXCEPT !.status = 429, !.retryAfter = retryAfter]

\* 400: turnstileToken, formId or data is missing
BadRequest == [NoResponse EXCEPT !.status = 400]

\* 403 'Turnstile verification failed'
Forbidden == [NoResponse EXCEPT !.status = 403]

\* 200 'Form submitted successfully'
Submitted(id) ==
    [NoResponse EXCEPT !.status = 200, !.success = TRUE, !.submissionId = Some(id)]

\* the bodies of the requests: text that is not JSON, JSON that lacks a field, and
\* complete bodies
Bodies ==
    {[kind |-> k, formId |-> <<"f">>, data |-> [name |-> "A"]] :
        k \in {"invalid", "noToken", "noFormId", "noData"}}
    \cup {[kind |-> "ok", formId |-> f, data |-> d.data] : f \in FormIds, d \in Payloads}

\* a verifier that accepts the token when it cannot reach siteverify
VerifyCatchAccepts == [success |-> TRUE, score |-> Undefined]

\* the catch of verifyTurnstile: {success: false, errors: ['verification-failed']}
VerifyCatch == [success |-> FALSE, score |-> Undefined]

\* what verifyTurnstile returns: the verdict of siteverify, or the result of its
\* catch when the fetch or the parsing of the response throws
Verdicts ==
    {[success |-> FALSE, score |-> Undefined, how |-> "rejected"]}
    \cup {[success |-> VerifyCatch.success, score |-> VerifyCatch.score, how |-> "threw"]}
    \cup {[success |-> TRUE, score |-> d.turnstileScore, how |-> "accepted"] :
            d \in Payloads}

\* how the awaited sendEmailNotification ends: {success: true}, {success: false},
\* or a rejection
EmailOutcomes == {"success", "failure", "rejected"}

\* a rejected notification failing the request
AfterNotifyStrict(outcome, id) ==
    IF outcome = "rejected" THEN InternalError ELSE Submitted(id)

\* the result of the notification is not looked at and its rejection is caught
AfterNotify(outcome, id) == Submitted(id)

\* the handler answers the request; the next request can be taken
RespondTo(request, response) ==
    /\ resp' = [response EXCEPT !.calls = request.calls, !.body = request.body,
                                !.verdict = request.verdict]
    /\ sub' = SubIdle

Respond(response) == RespondTo(sub, response)

\* the handler goes on to its next await, having called f
Call(pc, f) == [sub EXCEPT !.pc = pc, !.calls = Append(@, f)]

\* a handler that does not consult the rate limiter
SubmitStartUnlimited ==
    /\ sub.pc = "idle"
    /\ Storing = {} /\ InFlight = {}
    /\ requests < MaxSubmits
    /\ requests' = requests + 1
    /\ sub' = [SubIdle EXCEPT !.pc = "body"]
    /\ UNCHANGED <<configVars, soloVars, adminVars, clientVars, raceVars, rateVars, storeVars, emailOn, resp>>

\* a request arrives; with rate limiting enabled checkRateLimit is called first
SubmitStart ==
    /\ sub.pc = "idle"
    /\ Storing = {} /\ InFlight = {}
    /\ requests < MaxSubmits
    /\ requests' = requests + 1
    /\ IF rateLimitEnabled
       THEN /\ \E p \in Procs : \/ RlStart(p, FirstCaller)
                                \/ RlNoStorage(p, FirstCaller)
            /\ sub' = [SubIdle EXCEPT !.pc = "limit", !.calls = <<"limit">>]
       ELSE /\ sub' = [SubIdle EXCEPT !.pc = "body"]
            /\ UNCHANGED rateVars
    /\ UNCHANGED <<configVars, soloVars, adminVars, clientVars, raceVars, storeVars, emailOn, resp>>

\* checkRateLimit has returned or thrown
SubmitLimited ==
    /\ sub.pc = "limit"
    /\ InFlight = {}
    /\ IF ret.outcome = "threw" THEN Respond(InternalError)
       ELSE IF ~ret.allowed THEN Respond(RateLimited(ret.retryAfter))
       ELSE sub' = [sub EXCEPT !.pc = "body"] /\ UNCHANGED resp
    /\ UNCHANGED <<configVars, soloVars, adminVars, clientVars, raceVars, rateVars, storeVars, emailOn, requests>>

\* await c.req.json() ends; the fields are validated and verifyTurnstile is called
SubmitBody(body) ==
    /\ sub.pc = "body"
    /\ IF body.kind = "invalid"
       THEN RespondTo([sub EXCEPT !.body = body.kind], InternalError)
       ELSE IF body.kind # "ok"
       THEN RespondTo([sub EXCEPT !.body = body.kind], BadRequest)
       ELSE /\ sub' = [Call("verify", "verify") EXCEPT !.formId = body.formId,
                                                       !.data = body.data,
                                                       !.body = body.kind]
            /\ UNCHANGED resp
    /\ UNCHANGED <<configVars, soloVars, adminVars, clientVars, raceVars, rateVars, storeVars, emailOn, requests>>

\* verifyTurnstile has returned; on success the timestamp is taken and
\* storeSubmission is called
SubmitVerified(verdict) ==
    /\ sub.pc = "verify"
    /\ IF ~verdict.success
       THEN /\ RespondTo([sub EXCEPT !.verdict = verdict.how], Forbidden)
            /\ UNCHANGED storeVars
       ELSE /\ \E p \in Procs :
                 \/ \E timestamp \in 1..MaxStamp, id \in Ids :
                       StStart(p, sub.formId,
                               [data |-> sub.data, turnstileScore |-> verdict.score],
                               timestamp, id)
                 \/ StNoStorage(p)
            /\ sub' = [Call("persist", "persist") EXCEPT !.verdict = verdict.how]
            /\ UNCHANGED resp
    /\ UNCHANGED <<configVars, soloVars, adminVars, clientVars, raceVars, rateVars, emailOn, requests>>

\* storeSubmission has returned the id or thrown; the notification is sent if a
\* provider is configured
SubmitStored ==
    /\ sub.pc = "persist"
    /\ Storing = {}
    /\ IF stRet.outcome = "threw" THEN Respond(InternalError)
       ELSE IF emailOn
            THEN /\ sub' = [Call("notify", "notify") EXCEPT !.id = stRet.id]
                 /\ UNCHANGED resp
            ELSE Respond(Submitted(stRet.id))
    /\ UNCHANGED <<configVars, soloVars, adminVars, clientVars, raceVars, rateVars, storeVars, emailOn, requests>>

\* the awaited notification has ended
SubmitNotified(outcome) ==
    /\ sub.pc = "notify"
    /\ Respond([AfterNotify(outcome, sub.id) EXCEPT !.email = outcome])
    /\ UNCHANGED <<configVars, soloVars, adminVars, clientVars, raceVars, rateVars, storeVars, emailOn, requests>>

(***************************************************************************)
(* The client library (src/public/form-handler.js): handleSubmit on one    *)
(* form of the page.                                                       *)
(***************************************************************************)
\* what turnstile.getResponse() gives: nothing, the empty string, a token
Tokens == {Null, Some(""), Some("token")}

\* how the fetch of /submit ends: it rejects, its body is not JSON, or the JSON
\* of the worker's response
Results ==
    {[success |-> TRUE, submissionId |-> Some(id), error |-> Null, details |-> << >>] :
        id \in Ids}
    \cup {[success |-> FALSE, submissionId |-> Null, error |-> Some("Rate limit exceeded"),
           details |-> << >>],
          [success |-> FALSE, submissionId |-> Null,
           error |-> Some("Turnstile verification failed"),
           details |-> <<"invalid-input-response">>],
          [success |-> FALSE, submissionId |-> Null, error |-> Null, details |-> << >>]}

\* errorMsg: result.error || 'Submission failed', then ': ' and the details
ErrorMsg(result) ==
    (IF result.error = Null THEN <<"Submission failed">> ELSE <<result.error[1]>>)
    \o (IF Len(result.details) > 0 THEN <<": ">> \o result.details ELSE << >>)

NoMessage == [text |-> << >>, type |-> "none"]

ClientIdle == [pc |-> "idle", formId |-> <<"f">>, disabled |-> FALSE,
               message |-> NoMessage, events |-> << >>, before |-> 0,
               outcome |-> "none", attempts |-> 0]

\* this.showMessage(form, text, type)
ShowMessage(text, type) == [text |-> text, type |-> type]

\* form.dispatchEvent(new CustomEvent(type, {detail}))
Dispatch(events, type, detail) == Append(events, [type |-> type, detail |-> detail])

\* the finally block: the button is enabled again, handleSubmit has ended
Finally(c) == [c EXCEPT !.pc = "idle", !.disabled = FALSE]

\* if (!turnstileToken) { this.showMessage(...); return; }
NoToken(c) ==
    Finally([c EXCEPT !.message = ShowMessage(<<"Please complete the verification">>,
                                              "error"),
                      !.outcome = "noToken"])

\* the catch block of handleSubmit
Catch(c, error) ==
    Finally([c EXCEPT !.message = ShowMessage(<<"Network error. Please try again.">>,
                                              "error"),
                      !.events = Dispatch(@, "formflare:error",
                                          [error |-> <<error>>, formId |-> c.formId]),
                      !.outcome = "network"])

\* the form is submitted: the button is disabled, the fields and the token are
\* read; without a token handleSubmit returns, with one it awaits the fetch
HandleSubmit(formId, token) ==
    /\ client.pc = "idle"
    /\ client.attempts < MaxAttempts
    /\ LET c == [client EXCEPT !.formId = formId, !.disabled = TRUE,
                               !.before = Len(client.events), !.outcome = "none",
                               !.attempts = @ + 1]
       IN  client' = IF token = Null \/ token[1] = ""
                     THEN NoToken(c)
                     ELSE [c EXCEPT !.pc = "fetch"]

\* the fetch resolves with the response of the worker
FetchResolves ==
    /\ client.pc = "fetch"
    /\ client' = [client EXCEPT !.pc = "json"]

\* the fetch rejects: the worker cannot be reached
FetchRejects ==
    /\ client.pc = "fetch"
    /\ client' = Catch(client, "Failed to fetch")

\* response.json() rejects: the body of the response is not JSON
JsonRejects ==
    /\ client.pc = "json"
    /\ client' = Catch(client, "Unexpected token")

\* response.json() resolves with the result of the worker
JsonResolves(result) ==
    /\ client.pc = "json"
    /\ client' =
         IF result.success
         THEN Finally([client EXCEPT
                  !.message = ShowMessage(<<"Form submitted successfully!">>, "success"),
                  !.events = Dispatch(@, "formflare:success",
                                      [submissionId |-> result.submissionId,
                                       formId |-> client.formId]),
                  !.outcome = "success"])
         ELSE Finally([client EXCEPT
                  !.message = ShowMessage(ErrorMsg(result), "error"),
                  !.events = Dispatch(@, "formflare:error",
                                      [error |-> ErrorMsg(result),
                                       formId |-> client.formId]),
                  !.outcome = "error"])

(***************************************************************************)
(* The specifications.                                                     *)
(***************************************************************************)
InitBackends ==
    /\ kvOn \in BOOLEAN
    /\ dbOn \in BOOLEAN

InitLimiter ==
    /\ clock = 0
    /\ ticks = 0
    /\ faults = 0
    /\ kvRate = << >>
    /\ dbRate = << >>
    /\ rl = [p \in Procs |-> Idle]
    /\ started = 0
    /\ ret = [identifier |-> "ip1", allowed |-> TRUE, retryAfter |-> 0,
              outcome |-> "none", failedOp |-> "none"]
    /\ seen = [i \in Identifiers |-> [n |-> 0, first |-> 0]]

InitStore ==
    /\ dbSub = << >>
    /\ kvSub = << >>
    /\ kvIndex = << >>
    /\ st = [p \in Procs |-> StIdle]
    /\ stored = << >>
    /\ created = [f \in FormIds |-> << >>]
    /\ issued = {}
    /\ stamp = 0
    /\ stRet = [outcome |-> "none", id |-> <<"0">>, failedOp |-> "none"]
    /\ got = NoRead

InitSubmit ==
    /\ sub = SubIdle
    /\ requests = 0
    /\ resp = NoResponse

\* no call has been made in the runs of the single identifiers
NoSolo ==
    [i \in Identifiers |->
        [kv |-> << >>, db |-> << >>,
         plan |-> [p \in Procs |-> << >>],
         result |-> [p \in Procs |-> [allowed |-> TRUE, retryAfter |-> 0]],
         ret |-> [allowed |-> TRUE, retryAfter |-> 0, outcome |-> "none"]]]

\* the table of the twin run is empty
NoTwin == [kv |-> << >>, db |-> << >>, early |-> FALSE,
           ret |-> [allowed |-> TRUE, retryAfter |-> 0, outcome |-> "none"]]

\* the document starts loading: no form is parsed and no script has run
NoPage == [readyState |-> "loading", library |-> FALSE, listener |-> FALSE,
           workerUrl |-> FALSE, autoInit |-> TRUE, inited |-> FALSE,
           forms |-> {}, handlers |-> [f \in FormIds |-> 0],
           submits |-> 0, posts |-> 0]

NoRace == [read |-> [p \in Procs |-> Null], readAt |-> [p \in Procs |-> 0],
           log |-> << >>]

\* the API key is set; no GET request yet; the form has not been submitted
InitAdmin ==
    /\ apiKey = Some(<<"k">>)
    /\ admin = NoRequest
    /\ client = ClientIdle
    /\ page = NoPage
    /\ race = NoRace
    /\ solo = NoSolo
    /\ twin = NoTwin

NextRate ==
    /\ \/ \E p \in Procs, identifier \in Identifiers : RlStart(p, identifier)
       \/ \E p \in Procs, identifier \in Identifiers : RlNoStorage(p, identifier)
       \/ \E p \in Procs : RlRead(p)
       \/ \E p \in Procs : RlWrite(p)
       \/ \E p \in Procs : RlFault(p)
       \/ Tick
    /\ UNCHANGED <<configVars, soloVars, adminVars, clientVars, raceVars, storeVars, submitVars>>

NextStore ==
    /\ \/ \E p \in Procs, formId \in FormIds, payload \in Payloads,
             timestamp \in 1..MaxStamp, id \in Ids :
               StStart(p, formId, payload, timestamp, id)
       \/ \E p \in Procs : StNoStorage(p)
       \/ \E p \in Procs : StInsert(p)
       \/ \E p \in Procs : StPutRecord(p)
       \/ \E p \in Procs : StGetIndex(p)
       \/ \E p \in Procs : StPutIndex(p)
       \/ \E formId \in FormIds, limit \in -1..MaxPage, offset \in -1..MaxOffset :
               GetSubmissions(formId, limit, offset)
       \/ \E submissionId \in Ids : GetSubmission(submissionId)
    /\ UNCHANGED <<configVars, soloVars, adminVars, clientVars, raceVars, rateVars, submitVars>>

\* the rate limiter, requests may overlap
InitRate ==
    /\ InitBackends /\ serial = FALSE
    /\ maxRequests \in Limits /\ windowSeconds \in Windows
    /\ rateEnv = Some(True) /\ emailOn = FALSE
    /\ InitLimiter /\ InitStore /\ InitSubmit /\ InitAdmin
SpecRate == InitRate /\ [][NextRate]_vars

\* the rate limiter, requests arrive one after the other
InitRateSerial ==
    /\ InitBackends /\ serial = TRUE
    /\ maxRequests \in Limits /\ windowSeconds \in Windows
    /\ rateEnv = Some(True) /\ emailOn = FALSE
    /\ InitLimiter /\ InitStore /\ InitSubmit /\ InitAdmin
SpecRateSerial == InitRateSerial /\ [][NextRate]_vars

\* the submission store, calls may overlap
InitSubmissions ==
    /\ InitBackends /\ serial = FALSE
    /\ maxRequests = 1 /\ windowSeconds = 1
    /\ rateEnv = Some(True) /\ emailOn = FALSE
    /\ InitLimiter /\ InitStore /\ InitSubmit /\ InitAdmin
SpecStore == InitSubmissions /\ [][NextStore]_vars

\* the submission store, calls are made one after the other
InitSubmissionsSerial ==
    /\ InitBackends /\ serial = TRUE
    /\ maxRequests = 1 /\ windowSeconds = 1
    /\ rateEnv = Some(True) /\ emailOn = FALSE
    /\ InitLimiter /\ InitStore /\ InitSubmit /\ InitAdmin
SpecStoreSerial == InitSubmissionsSerial /\ [][NextStore]_vars

\* the steps of checkRateLimit inside /submit, and the failure of its backend
LimiterReads ==
    /\ \E p \in Procs : RlRead(p)
    /\ UNCHANGED <<configVars, soloVars, adminVars, clientVars, raceVars, storeVars, submitVars>>

LimiterWrites ==
    /\ \E p \in Procs : RlWrite(p)
    /\ UNCHANGED <<configVars, soloVars, adminVars, clientVars, raceVars, storeVars, submitVars>>

LimiterFails ==
    /\ \E p \in Procs : RlFault(p)
    /\ UNCHANGED <<configVars, soloVars, adminVars, clientVars, raceVars, storeVars, submitVars>>

\* the steps of storeSubmission inside /submit, and the failure of its backend
StoreInserts ==
    /\ \E p \in Procs : StInsert(p)
    /\ UNCHANGED <<configVars, soloVars, adminVars, clientVars, raceVars, rateVars, submitVars>>

StorePutsRecord ==
    /\ \E p \in Procs : StPutRecord(p)
    /\ UNCHANGED <<configVars, soloVars, adminVars, clientVars, raceVars, rateVars, submitVars>>

StoreGetsIndex ==
    /\ \E p \in Procs : StGetIndex(p)
    /\ UNCHANGED <<configVars, soloVars, adminVars, clientVars, raceVars, rateVars, submitVars>>

StorePutsIndex ==
    /\ \E p \in Procs : StPutIndex(p)
    /\ UNCHANGED <<configVars, soloVars, adminVars, clientVars, raceVars, rateVars, submitVars>>

StoreFails ==
    /\ \E p \in Procs : StFault(p)
    /\ UNCHANGED <<configVars, soloVars, adminVars, clientVars, raceVars, limiterVars, submitVars>>

NextSubmit ==
    \/ SubmitStart
    \/ SubmitLimited
    \/ \E body \in Bodies : SubmitBody(body)
    \/ \E verdict \in Verdicts : SubmitVerified(verdict)
    \/ SubmitStored
    \/ \E outcome \in EmailOutcomes : SubmitNotified(outcome)
    \/ LimiterReads
    \/ LimiterWrites
    \/ LimiterFails
    \/ StoreInserts
    \/ StorePutsRecord
    \/ StoreGetsIndex
    \/ StorePutsIndex
    \/ StoreFails

\* the requests of one client, handled one after the other; backends may fail
InitRequests ==
    /\ InitBackends /\ serial = TRUE
    /\ rateEnv \in RateEnvs /\ emailOn \in BOOLEAN
    /\ maxRequests = 1 /\ windowSeconds = 1
    /\ InitLimiter /\ InitStore /\ InitSubmit /\ InitAdmin
SpecSubmit == InitRequests /\ [][NextSubmit]_vars

\* the submission store with failing reads, calls are made one after the other
NextStoreFailing ==
    /\ \/ \E p \in Procs, formId \in FormIds, payload \in Payloads,
             timestamp \in 1..MaxStamp, id \in Ids :
               StStart(p, formId, payload, timestamp, id)
       \/ \E p \in Procs : StInsert(p)
       \/ \E p \in Procs : StPutRecord(p)
       \/ \E p \in Procs : StGetIndex(p)
       \/ \E p \in Procs : StPutIndex(p)
       \/ \E formId \in FormIds, limit \in -1..MaxPage, offset \in -1..MaxOffset :
               GetSubmissions(formId, limit, offset)
       \/ \E formId \in FormIds, limit \in -1..MaxPage, offset \in -1..MaxOffset :
               GetSubmissionsFails(formId, limit, offset)
       \/ \E submissionId \in Ids : GetSubmission(submissionId)
       \/ \E submissionId \in Ids : GetSubmissionFails(submissionId)
    /\ UNCHANGED <<configVars, soloVars, adminVars, clientVars, raceVars, rateVars, submitVars>>

InitStoreFailing ==
    /\ kvOn \in BOOLEAN /\ dbOn \in BOOLEAN /\ (kvOn \/ dbOn)
    /\ serial = TRUE
    /\ maxRequests = 1 /\ windowSeconds = 1
    /\ rateEnv = Some(True) /\ emailOn = FALSE
    /\ InitLimiter /\ InitStore /\ InitSubmit /\ InitAdmin
SpecStoreFailing == InitStoreFailing /\ [][NextStoreFailing]_vars

\* the GET handlers over the store, requests are made one after the other; reads
\* may fail
NextAdmin ==
    \/ /\ \E p \in Procs, formId \in FormIds, timestamp \in 1..MaxStamp, id \in Ids :
               StStart(p, formId, [data |-> [name |-> "A"], turnstileScore |-> Undefined],
                       timestamp, id)
       /\ UNCHANGED <<configVars, soloVars, adminVars, clientVars, raceVars, rateVars, submitVars>>
    \/ StoreInserts
    \/ StorePutsRecord
    \/ StoreGetsIndex
    \/ StorePutsIndex
    \/ /\ \E header \in Headers, formId \in FormIds, limit \in {-1, MaxPage},
             offset \in {0, MaxOffset} :
               AdminList(header, formId, limit, offset)
       /\ UNCHANGED <<configVars, soloVars, clientVars, raceVars, rateVars, submitVars>>
    \/ /\ \E header \in Headers, submissionId \in Ids : AdminGet(header, submissionId)
       /\ UNCHANGED <<configVars, soloVars, clientVars, raceVars, rateVars, submitVars>>

InitAdminRequests ==
    /\ InitBackends /\ serial = TRUE
    /\ maxRequests = 1 /\ windowSeconds = 1
    /\ rateEnv = Some(True) /\ emailOn = FALSE
    /\ InitLimiter /\ InitStore /\ InitSubmit
    /\ apiKey \in ApiKeys
    /\ admin = NoRequest
    /\ client = ClientIdle
    /\ page = NoPage
    /\ race = NoRace
    /\ solo = NoSolo
    /\ twin = NoTwin
SpecAdmin == InitAdminRequests /\ [][NextAdmin]_vars

\* the client library on a page with one form per form id
NextClient ==
    /\ \/ \E formId \in FormIds, token \in Tokens : HandleSubmit(formId, token)
       \/ FetchResolves
       \/ FetchRejects
       \/ JsonRejects
       \/ \E result \in Results : JsonResolves(result)
    /\ UNCHANGED <<page, configVars, soloVars, adminVars, raceVars, rateVars, storeVars, submitVars>>

InitClient ==
    /\ kvOn = FALSE /\ dbOn = FALSE /\ serial = TRUE
    /\ maxRequests = 1 /\ windowSeconds = 1
    /\ rateEnv = Some(True) /\ emailOn = FALSE
    /\ InitLimiter /\ InitStore /\ InitSubmit /\ InitAdmin
SpecClient == InitClient /\ [][NextClient]_vars

(***************************************************************************)
(* Properties of checkRateLimit.                                           *)
(***************************************************************************)
WindowMs == windowSeconds * MsPerSecond

\* p returns in this step
Returns(p) == rl[p].pc # "idle" /\ rl'[p].pc = "idle"

\* the last call returned a result (it did not throw)
Answered == ret.outcome \in {"ok", "caught"}

\* C1: a fresh identifier, calls one after the other on working backends, all of
\* them returned before the first window ends: call k is allowed when
\* k <= maxRequests, and denied with a positive retryAfter when k > maxRequests
\* (maxRequests >= 1).
C1_FirstNAllowedThenDenied ==
    LET i == ret.identifier
        k == seen[i].n
    IN  (/\ serial /\ (kvOn \/ dbOn) /\ faults = 0
         /\ maxRequests >= 1
         /\ k >= 1
         /\ clock < seen[i].first + WindowMs)
        => /\ ret.outcome = "ok"
           /\ k <= maxRequests => ret.allowed
           /\ k > maxRequests => (~ret.allowed /\ ret.retryAfter >= 1)

\* call maxRequests + 1 of a window was just denied, on the table backend
C1_Witness ==
    /\ serial /\ dbOn /\ ~kvOn /\ faults = 0
    /\ maxRequests = 2
    /\ seen[ret.identifier].n = 3
    /\ clock < seen[ret.identifier].first + WindowMs
    /\ ~ret.allowed /\ ret.retryAfter >= 1

\* C2: calls one after the other: a call made at now >= resetAt of the stored
\* window whose backend operations succeed leaves the window count = 1,
\* resetAt = now + windowSeconds * 1000, and returns allowed: true.
C2_ExpiredWindowReplaced ==
    [][\A p \in Procs :
        (/\ Returns(p)
         /\ ret'.outcome = "ok"
         /\ rl[p].prev # Null
         /\ rl[p].now >= rl[p].prev[1].resetAt)
        => /\ ret'.allowed
           /\ Stored(kvRate', dbRate', rl[p].identifier)
                = Some([count |-> 1, resetAt |-> rl[p].now + WindowMs])]_vars

\* a window that had reached the limit was replaced by a call made at its resetAt
C2_Witness ==
    LET i == ret.identifier
        w == Stored(kvRate, dbRate, i)
    IN  /\ serial /\ kvOn /\ faults = 0
        /\ maxRequests = 1
        /\ seen[i].n = 3
        /\ ret.outcome = "ok" /\ ret.allowed
        /\ w = Some([count |-> 1, resetAt |-> seen[i].first + 2 * WindowMs])

\* C7: a call that returns allowed: false has written nothing: the step in which it
\* returns leaves every key and row as it was, and the call wrote nothing before.
C7_DeniedWritesNothing ==
    [][\A p \in Procs :
        (Returns(p) /\ ret'.outcome = "ok" /\ ~ret'.allowed)
        => /\ kvRate' = kvRate
           /\ dbRate' = dbRate
           /\ ~rl[p].wrote]_vars

\* a call was denied while another identifier has a window of its own
C7_Witness ==
    /\ kvOn
    /\ ret.outcome = "ok" /\ ~ret.allowed
    /\ \A i \in Identifiers : Stored(kvRate, dbRate, i) # Null

\* C8 as claimed: a denied call returns retryAfter = ceil((resetAt - now) / 1000)
\* for the stored window, and 1 <= retryAfter <= windowSeconds.
C8_RetryAfterWithinWindow ==
    [][\A p \in Procs :
        (Returns(p) /\ ret'.outcome = "ok" /\ ~ret'.allowed)
        => LET w == Stored(kvRate, dbRate, rl[p].identifier)
           IN  /\ w # Null
               /\ ret'.retryAfter = Ceil(w[1].resetAt - rl[p].now, MsPerSecond)
               /\ ret'.retryAfter >= 1
               /\ ret'.retryAfter <= windowSeconds]_vars

\* C8, amended: a denied call returns retryAfter = ceil((resetAt - now) / 1000) for
\* the stored window and retryAfter >= 1; retryAfter <= windowSeconds when the call
\* read its clock no earlier than the call that created the window (always so when
\* calls do not overlap).
C8_RetryAfterAmended ==
    [][\A p \in Procs :
        (Returns(p) /\ ret'.outcome = "ok" /\ ~ret'.allowed)
        => LET w == Stored(kvRate, dbRate, rl[p].identifier)
           IN  /\ w # Null
               /\ ret'.retryAfter = Ceil(w[1].resetAt - rl[p].now, MsPerSecond)
               /\ ret'.retryAfter >= 1
               /\ rl[p].now >= w[1].resetAt - WindowMs
                    => ret'.retryAfter <= windowSeconds]_vars

\* a call was denied one tick into a window of two seconds
C8_Witness ==
    LET w == Stored(kvRate, dbRate, ret.identifier)
    IN  /\ ret.outcome = "ok" /\ ~ret.allowed
        /\ windowSeconds = 2
        /\ ret.retryAfter = 2
        /\ w # Null
        /\ clock = w[1].resetAt - WindowMs + TickMs

\* C9: with neither backend configured every call returns allowed: true.
C9_NoStorageAllowsAll ==
    (~kvOn /\ ~dbOn /\ started >= 1) => (ret.outcome = "ok" /\ ret.allowed)

\* several calls were made with neither backend configured
C9_Witness ==
    /\ ~kvOn /\ ~dbOn
    /\ started >= 2
    /\ ret.identifier = "ip2"
    /\ ret.outcome = "ok" /\ ret.allowed

\* C10: on the table backend a call whose SELECT, DELETE, INSERT or UPDATE fails
\* returns allowed: true and raises no error.
C10_TableFailsOpen ==
    (dbOn /\ ~kvOn /\ ret.outcome # "none")
    => /\ Answered
       /\ ret.outcome = "caught" => ret.allowed

\* the DELETE of an expired row failed and the call was allowed
C10_Witness ==
    /\ dbOn /\ ~kvOn
    /\ ret.outcome = "caught" /\ ret.failedOp = "delete"
    /\ ret.allowed

(***************************************************************************)
(* Properties of the submission store.                                     *)
(***************************************************************************)
Reverse(s) == [i \in 1..Len(s) |-> s[Len(s) + 1 - i]]

IdsOf(submissions) == [i \in 1..Len(submissions) |-> submissions[i].id]

\* C3: calls made one after the other, no backend failure: getSubmission of an id that storeSubmission
\* returned gives the submission that was stored, with that id.
C3_StoredIsReadBack ==
    (/\ serial /\ got.op = "get" /\ got.outcome = "ok"
     /\ got.submissionId \in DOMAIN stored)
    => got.result = Some(stored[got.submissionId])

\* C4: the array at index:{formId} never holds more than 1000 ids, whatever the
\* interleaving; an insertion into a full index that nothing changed since the
\* insertion read it puts the new id first and drops the last, oldest id.
C4_IndexBounded ==
    [][/\ \A k \in DOMAIN kvIndex' : Len(kvIndex'[k]) <= IndexCap
       /\ \A p \in Procs :
            LET formId == st[p].submission.formId
                before == ReadIndex(kvIndex, formId)
            IN  (/\ st[p].pc = "putIndex" /\ st'[p].pc = "idle"
                 /\ st[p].existingIndex = before
                 /\ Len(before) = IndexCap)
                => ReadIndex(kvIndex', formId)
                     = <<st[p].id>> \o SubSeq(before, 1, IndexCap - 1)]_vars

\* a third submission of a form pushed the first one out of the index
C4_Witness ==
    \E formId \in FormIds :
        /\ kvOn /\ ~dbOn
        /\ Len(created[formId]) = IndexCap + 1
        /\ ReadIndex(kvIndex, formId)
             = SubSeq(Reverse(created[formId]), 1, IndexCap)

\* C5: getSubmissions(formId, limit, offset) returns at most limit entries (none
\* when limit is negative), each of the form asked for.
C5_PageWithinLimit ==
    (got.op = "list" /\ got.outcome = "ok")
    => /\ Len(got.result) <= (IF got.limit < 0 THEN 0 ELSE got.limit)
       /\ \A i \in 1..Len(got.result) : got.result[i].formId = got.formId

\* C6: after n stores of one form made one after the other, n <= limit,
\* getSubmissions(formId, limit, 0) returns the n submissions, the latest first.
C6_NewestFirst ==
    (/\ serial /\ got.op = "list" /\ got.outcome = "ok" /\ got.offset = 0
     /\ Len(created[got.formId]) <= got.limit)
    => IdsOf(got.result) = Reverse(created[got.formId])

(***************************************************************************)
(* Errors and backend selection of checkRateLimit.                         *)
(***************************************************************************)
KvOps == {"get", "put"}
DbOps == {"select", "delete", "insert", "update"}

\* C11: on either backend a failing read or write never leaves checkRateLimit as
\* an error: the call returns allowed: true.
C11_ErrorsNeverPropagate ==
    ret.failedOp # "none" => (ret.outcome = "caught" /\ ret.allowed)

\* C12: with KV configured no row of rate_limits is read or written, whether or
\* not D1 is configured as well; D1 is used only when KV is absent.
C12_KvOnlyWhenConfigured ==
    [][kvOn => /\ dbRate' = dbRate
               /\ \A p \in Procs :
                    rl'[p].pc # "idle" => PendingOp(rl'[p]) \in KvOps]_vars

\* both configured: windows were created and counted on KV, rate_limits is empty
C12_Witness ==
    /\ kvOn /\ dbOn
    /\ started >= 2 /\ ret.outcome = "ok"
    /\ \E i \in Identifiers :
         /\ RateKey(i) \in DOMAIN kvRate
         /\ kvRate[RateKey(i)].count >= 2
    /\ dbRate = << >>

(***************************************************************************)
(* Backend selection and failures of the submission store.                 *)
(***************************************************************************)
\* C13: with D1 configured, storeSubmission, getSubmissions and getSubmission
\* read and write no KV key, whether or not KV is configured as well.
C13_DbExclusive ==
    [][dbOn => /\ kvSub' = kvSub /\ kvIndex' = kvIndex
               /\ \A p \in Procs : st'[p].pc \in {"idle", "insert"}
               /\ got'.op # "none" => got'.backend = "db"]_vars

\* both configured: a submission was stored in D1 and read back from it, KV is empty
C13_Witness ==
    /\ kvOn /\ dbOn
    /\ got.op = "get" /\ got.outcome = "ok" /\ got.result # Null
    /\ got.submissionId \in DOMAIN stored
    /\ dbSub # << >> /\ kvSub = << >> /\ kvIndex = << >>

\* C15: with neither backend configured getSubmissions returns [] and
\* getSubmission returns null, whatever the arguments, and neither throws.
C15_NoBackendReadsEmpty ==
    (~kvOn /\ ~dbOn /\ got.op # "none")
    => (got.outcome = "ok" /\ got.result = << >>)

C15_Witness ==
    /\ ~kvOn /\ ~dbOn
    /\ got.op = "get" /\ got.status = 404
    /\ stRet.outcome = "threw"

\* what getSubmission(submissionId) returns from the given rows and keys
ReadBack(rows, store, submissionId) ==
    IF Backend = "db" THEN DbFind(rows, submissionId)
    ELSE IF Backend = "kv" THEN KvFind(store, submissionId)
    ELSE Null

\* C19: a submission is immutable: no step rewrites or removes a row or a record,
\* and what getSubmission reads back for an id that storeSubmission has returned
\* is the same before and after every step.
C19_StoredIsImmutable ==
    [][/\ Len(dbSub') >= Len(dbSub) /\ SubSeq(dbSub', 1, Len(dbSub)) = dbSub
       /\ \A key \in DOMAIN kvSub : key \in DOMAIN kvSub' /\ kvSub'[key] = kvSub[key]
       /\ \A id \in DOMAIN stored :
            ReadBack(dbSub', kvSub', id) = ReadBack(dbSub, kvSub, id)]_vars

(***************************************************************************)
(* Properties of POST /submit and of the failures of the store.            *)
(***************************************************************************)
Called(calls, f) == \E i \in 1..Len(calls) : calls[i] = f

\* f is called only after g has been called
After(calls, f, g) ==
    \A i \in 1..Len(calls) : calls[i] = f => \E j \in 1..(i - 1) : calls[j] = g

\* C14: with neither backend configured storeSubmission throws and returns no
\* id, and a /submit request that reached it is answered 500, never with success
\* and a submissionId.
C14_NoBackendStoreFails ==
    (~kvOn /\ ~dbOn)
    => /\ stRet.outcome # "ok" /\ stored = << >>
       /\ ~resp.success /\ resp.submissionId = Null
       /\ Called(resp.calls, "persist") => resp.status = 500

C14_Witness ==
    /\ ~kvOn /\ ~dbOn
    /\ stRet.outcome = "threw"
    /\ Called(resp.calls, "persist") /\ resp.status = 500

\* C16: when the INSERT, the put of the record, the get of the index or the put of
\* the index fails, storeSubmission returns no id and /submit answers 500 without
\* success and without a submissionId.
C16_StoreFailurePropagates ==
    [][/\ (stRet'.failedOp # "none" /\ stRet' # stRet)
          => (stRet'.outcome = "threw" /\ stored' = stored /\ created' = created)
       /\ (sub.pc = "persist" /\ sub'.pc # "persist" /\ stRet.failedOp # "none")
          => /\ sub'.pc = "idle"
             /\ resp'.status = 500 /\ ~resp'.success
             /\ resp'.submissionId = Null]_vars

\* the record was put, the put of the index failed: the request is answered 500
C16_Witness ==
    /\ stRet.failedOp = "putIndex" /\ stRet.outcome = "threw"
    /\ sub.pc = "idle" /\ resp.status = 500 /\ Called(resp.calls, "persist")
    /\ kvSub # << >> /\ kvIndex = << >>

\* C17: once storeSubmission has returned the id, the request is answered 200
\* with success and that id however the notification ends, and the notification
\* changes nothing that is stored.
C17_NotifierHasNoEffect ==
    [][(sub.pc = "notify" /\ sub'.pc # "notify")
       => /\ resp'.status = 200 /\ resp'.success
          /\ resp'.submissionId = Some(sub.id)
          /\ sub.id \in DOMAIN stored
          /\ stored' = stored /\ dbSub' = dbSub
          /\ kvSub' = kvSub /\ kvIndex' = kvIndex]_vars

\* the notification was rejected and the request answered with the id
C17_Witness ==
    /\ resp.email = "rejected" /\ resp.status = 200 /\ resp.success
    /\ resp.submissionId # Null /\ resp.submissionId[1] \in DOMAIN stored

\* verify, rate-limit, persist, notify
VerifyFirst(calls) ==
    /\ After(calls, "limit", "verify")
    /\ rateLimitEnabled => After(calls, "persist", "limit")
    /\ After(calls, "notify", "persist")

LimitFirst(calls) ==
    /\ rateLimitEnabled => After(calls, "verify", "limit")
    /\ After(calls, "persist", "verify")
    /\ After(calls, "notify", "persist")

C20_ReadFailurePropagates ==
    got.failed => (got.outcome = "threw" /\ got.status = 500)

\* a stored record was asked for, the read failed and the answer is 500
C20_Witness ==
    /\ got.op = "get" /\ got.failed /\ got.status = 500
    /\ got.submissionId \in DOMAIN stored

(***************************************************************************)
(* The scan of getSubmission on the log backend.                           *)
(***************************************************************************)
\* C21: on the log backend getSubmission(id) returns the stored submission for
\* every id that storeSubmission has returned, however many submission: keys exist
\* across all forms, also when they are more than one listing returns.
C21_KvScanFindsEveryStored ==
    (/\ Backend = "kv" /\ got.op = "get" /\ got.outcome = "ok"
     /\ got.submissionId \in DOMAIN stored)
    => /\ got.result # Null
       /\ got.result[1] = stored[got.submissionId]

(***************************************************************************)
(* Properties of the GET handlers.                                         *)
(***************************************************************************)
\* the text up to the first space
FirstWord(s) ==
    IF \E i \in 1..Len(s) : s[i] = " "
    THEN SubSeq(s, 1, Min({i \in 1..Len(s) : s[i] = " "}) - 1)
    ELSE s

\* the header is 'Bearer <token>' and the token, the word after the scheme, is the key
Carries(header, key) ==
    /\ header # Null /\ key # Null
    /\ Len(header[1]) > Len(Bearer)
    /\ SubSeq(header[1], 1, Len(Bearer)) = Bearer
    /\ header[1][Len(Bearer) + 1] = " "
    /\ FirstWord(SubSeq(header[1], Len(Bearer) + 2, Len(header[1]))) = key[1]

MissingField == {"noToken", "noFormId", "noData"}

SpellsTrue ==
    /\ rateEnv # Null /\ Len(rateEnv[1]) = 4
    /\ rateEnv[1][1] \in {"t", "T"} /\ rateEnv[1][2] \in {"r", "R"}
    /\ rateEnv[1][3] \in {"u", "U"} /\ rateEnv[1][4] \in {"e", "E"}

\* C24: /submit answers 429 with the retryAfter of the limiter if and only if
\* RATE_LIMIT_ENABLED is 'true' in any case and checkRateLimit returned allowed:
\* false; such a request calls neither the verifier, the store nor the notifier;
\* when rate limiting is not enabled checkRateLimit is never called.
C24_DeniedIffLimited ==
    [][/\ (sub.pc # "idle" /\ sub'.pc = "idle")
          => /\ resp'.status = 429
                <=> (SpellsTrue /\ ret.outcome \in {"ok", "caught"} /\ ~ret.allowed)
             /\ resp'.status = 429
                => /\ resp'.retryAfter = ret.retryAfter
                   /\ resp'.calls = <<"limit">>
                   /\ UNCHANGED storeVars
       /\ ~SpellsTrue
          => /\ started' = 0 /\ ret'.outcome = "none"
             /\ ~Called(sub'.calls, "limit") /\ ~Called(resp'.calls, "limit")]_vars

\* RATE_LIMIT_ENABLED is 'True': the second request of the window was answered 429
\* with the retryAfter of the limiter
C24_Witness ==
    /\ rateEnv = Some(<<"T", "r", "u", "e">>)
    /\ resp.status = 429 /\ resp.retryAfter = 1 /\ ret.retryAfter = 1
    /\ requests = 2 /\ stored # << >>

(***************************************************************************)
(* Properties of the client library.                                       *)
(***************************************************************************)
\* C25: every attempt that handleSubmit has handled has dispatched exactly one
\* event on the form: formflare:success when the worker answered success,
\* formflare:error when the worker answered an error, when the request failed and
\* when the Turnstile token is missing.
C25_OneEventPerAttempt ==
    (client.pc = "idle" /\ client.attempts >= 1)
    => /\ Len(client.events) = client.before + 1
       /\ client.outcome = "success"
          => client.events[Len(client.events)].type = "formflare:success"
       /\ client.outcome \in {"error", "network", "noToken"}
          => client.events[Len(client.events)].type = "formflare:error"

(***************************************************************************)
(* Concurrent calls of storeSubmission and of checkRateLimit.              *)
(***************************************************************************)
Range(seq) == {seq[i] : i \in 1..Len(seq)}

\* C26: on the log backend storeSubmission calls for one formId that overlap, in
\* whatever order their puts and gets are served, are all persisted: once they
\* have returned (and are no more than the index holds), each returned id is in
\* index:{formId} and getSubmissions returns each of the submissions.
C26_ConcurrentStoresBothIndexed ==
    (Backend = "kv" /\ Storing = {})
    => \A formId \in FormIds :
          Len(created[formId]) <= IndexCap
          => /\ Range(created[formId]) \subseteq Range(ReadIndex(kvIndex, formId))
             /\ (/\ got.op = "list" /\ got.outcome = "ok" /\ got.formId = formId
                 /\ got.offset = 0 /\ got.limit >= Len(created[formId]))
                => Range(created[formId]) \subseteq Range(IdsOf(got.result))

\* what the read of p found
Found(p) ==
    LET existing == IF rl[p].pc = "read"
                    THEN (IF UsesKv THEN KvGet(kvRate, RateKey(rl[p].identifier), clock)
                          ELSE DbSelect(dbRate, RateKey(rl[p].identifier)))
                    ELSE race.read[p]
    IN  existing

\* the record of the call of p, which returns in this step: the branch it took,
\* the count it read and the window it counts itself in (the one it read or the one
\* it starts), the number of calls that had returned when it read, and the count
\* and the rows stored when it returns
Entry(p) ==
    LET existing == Found(p)
        fresh == WindowExpired(existing, rl[p].now)
        after == Stored(kvRate', dbRate', rl[p].identifier)
    IN  [identifier |-> rl[p].identifier,
         allowed |-> ret'.allowed,
         outcome |-> ret'.outcome,
         failedOp |-> ret'.failedOp,
         branch |-> IF fresh THEN "new"
                    ELSE IF LimitExceeded(existing[1].count, maxRequests) THEN "denied"
                    ELSE "increment",
         read |-> IF fresh THEN 0 ELSE existing[1].count,
         readAt |-> IF rl[p].pc = "read" THEN Len(race.log) ELSE race.readAt[p],
         resetAt |-> IF fresh THEN rl[p].now + WindowMs ELSE existing[1].resetAt,
         after |-> IF after = Null THEN 0 ELSE after[1].count,
         rows |-> Cardinality({k \in DOMAIN dbRate' : k = RateKey(rl[p].identifier)})]

\* the step of p is recorded
Recorded(p) ==
    race' = [read |-> [race.read EXCEPT ![p] = IF Returns(p) THEN Null ELSE Found(p)],
             readAt |-> [race.readAt EXCEPT ![p] =
                            IF Returns(p) THEN 0
                            ELSE IF rl[p].pc = "read" THEN Len(race.log) ELSE @],
             log |-> IF Returns(p) THEN Append(race.log, Entry(p)) ELSE race.log]

RaceStarts ==
    /\ \E p \in Procs, identifier \in Identifiers : RlStart(p, identifier)
    /\ UNCHANGED <<configVars, soloVars, adminVars, clientVars, raceVars, storeVars, submitVars>>

RaceReads ==
    /\ \E p \in Procs : RlRead(p) /\ Recorded(p)
    /\ UNCHANGED <<configVars, soloVars, adminVars, clientVars, storeVars, submitVars>>

RaceWrites ==
    /\ \E p \in Procs : RlWrite(p) /\ Recorded(p)
    /\ UNCHANGED <<configVars, soloVars, adminVars, clientVars, storeVars, submitVars>>

RaceTick ==
    /\ Tick
    /\ UNCHANGED <<configVars, soloVars, adminVars, clientVars, raceVars, storeVars, submitVars>>

NextRace ==
    \/ RaceStarts
    \/ RaceReads
    \/ RaceWrites
    \/ RaceTick

\* the rate limiter on one working backend, calls may overlap; the limit lets
\* one call pass or all but the last
InitRace ==
    /\ kvOn \in BOOLEAN /\ dbOn \in BOOLEAN /\ kvOn # dbOn
    /\ serial = FALSE
    /\ maxRequests \in {1, MaxCalls - 1} /\ windowSeconds = 1
    /\ rateEnv = Some(True) /\ emailOn = FALSE
    /\ InitLimiter /\ InitStore /\ InitSubmit /\ InitAdmin
SpecRace == InitRace /\ [][NextRace]_vars

\* the calls i < j were for one identifier and read the same count of the same
\* window (or both found none), and neither was denied
SameRead(i, j) ==
    /\ i < j
    /\ race.log[i].identifier = race.log[j].identifier
    /\ race.log[i].resetAt = race.log[j].resetAt
    /\ race.log[i].read = race.log[j].read
    /\ race.log[i].branch # "denied" /\ race.log[j].branch # "denied"

\* the calls of the log allowed for the identifier and the window of call i
AllowedInWindow(i) ==
    {j \in 1..Len(race.log) :
        /\ race.log[j].identifier = race.log[i].identifier
        /\ race.log[j].resetAt = race.log[i].resetAt
        /\ race.log[j].allowed}

\* C27: on the log backend read, decision and write are not atomic: two calls for
\* one identifier that overlap can read the same count of the same window; both
\* then return allowed: true and the stored count is the count read plus 1, not
\* plus 2, so that more than maxRequests calls of a window can be allowed.
C27_KvLostIncrement ==
    UsesKv
    => \A i, j \in 1..Len(race.log) :
          SameRead(i, j)
          => /\ race.log[i].allowed /\ race.log[j].allowed
             /\ race.log[i].after = race.log[i].read + 1
             /\ race.log[j].after = race.log[j].read + 1

\* maxRequests = 2: the second and the third call of a window both read count 1
\* and were allowed; three calls were allowed and the stored count is 2
C27_Witness ==
    /\ UsesKv /\ maxRequests = 2
    /\ Len(race.log) = 3
    /\ SameRead(2, 3) /\ race.log[2].read = 1
    /\ AllowedInWindow(1) = {1, 2, 3}
    /\ Stored(kvRate, dbRate, race.log[1].identifier)
         = Some([count |-> 2, resetAt |-> race.log[1].resetAt])

Max(S) == CHOOSE x \in S : \A y \in S : y <= x

\* the calls of the log for the identifier
CallsOf(identifier) ==
    {j \in 1..Len(race.log) : race.log[j].identifier = identifier}

\* the calls for the identifier whose INSERT created a row
Inserted(identifier) ==
    {j \in CallsOf(identifier) :
        race.log[j].branch = "new" /\ race.log[j].outcome = "ok"}

\* the calls for the identifier that returned after its latest row was inserted
Since(identifier) == {j \in CallsOf(identifier) : j > Max(Inserted(identifier))}

\* every call since the latest INSERT read the row of that INSERT and found it
\* unexpired, and no call for the identifier is pending
OneWindow(identifier) ==
    /\ \A p \in Procs : rl[p].pc # "idle" => rl[p].identifier # identifier
    /\ Inserted(identifier) # {}
    /\ \A j \in Since(identifier) :
          /\ race.log[j].resetAt = race.log[Max(Inserted(identifier))].resetAt
          /\ race.log[j].branch \in {"increment", "denied"}

\* C28: on the table backend no increment is lost: when the calls for an identifier
\* that ran since its row was inserted all read that row unexpired, then after they
\* have completed, in whatever order their SELECTs and UPDATEs were served, the
\* stored count is 1 plus the number of those that took the increment branch.
C28_TableIncrementsKept ==
    (~UsesKv /\ dbOn)
    => \A identifier \in Identifiers :
          OneWindow(identifier)
          => Stored(kvRate, dbRate, identifier)
               = Some([count |-> 1 + Cardinality({j \in Since(identifier) :
                                                   race.log[j].branch = "increment"}),
                       resetAt |-> race.log[Max(Inserted(identifier))].resetAt])

\* two overlapping calls both read count 1 and both incremented: the count is 3
C28_Witness ==
    /\ ~UsesKv /\ dbOn
    /\ Len(race.log) = 3
    /\ OneWindow(race.log[1].identifier)
    /\ SameRead(2, 3) /\ race.log[2].read = 1 /\ race.log[2].branch = "increment"
    /\ Stored(kvRate, dbRate, race.log[1].identifier)
         = Some([count |-> 3, resetAt |-> race.log[1].resetAt])

\* the calls i < j for one identifier both found no row, or an expired one, and j
\* made its SELECT before i returned from its INSERT; no other call for the
\* identifier returned after the first of the two SELECTs
BothPassedCheck(i, j) ==
    /\ i < j
    /\ race.log[i].identifier = race.log[j].identifier
    /\ race.log[i].branch = "new" /\ race.log[j].branch = "new"
    /\ race.log[j].readAt < i
    /\ \A k \in CallsOf(race.log[i].identifier) :
          ((k > race.log[i].readAt \/ k > race.log[j].readAt) /\ k <= j) => k \in {i, j}

\* C29: on the table backend two overlapping calls for an identifier without a
\* row, or with an expired row, can both pass the existence check before either
\* inserts; in every such interleaving both return allowed: true, neither raises
\* an error, and when the later has returned one row exists for the key and its
\* count is 1.
C29_InsertRaceAllowsBoth ==
    (~UsesKv /\ dbOn)
    => \A i, j \in 1..Len(race.log) :
          BothPassedCheck(i, j)
          => /\ race.log[i].allowed /\ race.log[j].allowed
             /\ race.log[i].outcome \in {"ok", "caught"}
             /\ race.log[j].outcome \in {"ok", "caught"}
             /\ race.log[i].rows = 1 /\ race.log[i].after = 1
             /\ race.log[j].rows = 1 /\ race.log[j].after = 1

\* a row had expired; two calls both read it, both deleted it, one inserted, the
\* INSERT of the other failed on the primary key and the call was allowed
C29_Witness ==
    /\ ~UsesKv /\ dbOn
    /\ Len(race.log) = 3
    /\ race.log[1].branch = "new" /\ race.log[1].outcome = "ok"
    /\ BothPassedCheck(2, 3)
    /\ race.log[2].resetAt > race.log[1].resetAt
    /\ race.log[3].outcome = "caught" /\ race.log[3].failedOp = "insert"
    /\ race.log[3].allowed /\ race.log[3].after = 1

(***************************************************************************)
(* The notification of POST /submit (index.ts:417-441).                    *)
(***************************************************************************)
\* C30: the handler returns its success response without waiting for the
\* notification: when the 200 response of a request whose notification was
\* launched is sent, sendEmailNotification has not completed, so no outcome of
\* it is known to the handler.
C30_RespondsWhileNotifying ==
    (resp.status = 200 /\ "notify" \in Range(resp.calls)) => resp.email = "none"

(***************************************************************************)
(* The log backend's index and records under concurrent stores that may    *)
(* fail (storage.ts:48-65).                                                *)
(***************************************************************************)
KvStoreStarts ==
    /\ \E p \in Procs, formId \in FormIds, id \in Ids :
          StStart(p, formId, [data |-> [name |-> "A"], turnstileScore |-> Undefined],
                  1, id)
    /\ UNCHANGED <<configVars, soloVars, adminVars, clientVars, raceVars, rateVars, submitVars>>

NextKvStore ==
    \/ KvStoreStarts
    \/ StorePutsRecord
    \/ StoreGetsIndex
    \/ StorePutsIndex
    \/ StoreFails

\* the store on the log backend alone; calls may overlap and their puts and gets
\* may fail
InitKvStore ==
    /\ kvOn = TRUE /\ dbOn = FALSE /\ serial = FALSE
    /\ maxRequests = 1 /\ windowSeconds = 1
    /\ rateEnv = Some(True) /\ emailOn = FALSE
    /\ InitLimiter /\ InitStore /\ InitSubmit /\ InitAdmin
SpecKvStore == InitKvStore /\ [][NextKvStore]_vars

\* the ids of index:{formId} that have no record at submission:{formId}:{id}
Dangling(formId) ==
    {i \in 1..Len(ReadIndex(kvIndex, formId)) :
        SubmissionKey(formId, ReadIndex(kvIndex, formId)[i]) \notin DOMAIN kvSub}

\* C31: on the log backend the record is written before the index is read and
\* rewritten, so in every reachable state, whatever the interleaving of the stores
\* and wherever a store fails, each id of index:{formId} has a record at
\* submission:{formId}:{id}.
C31_IndexedHasRecord == \A formId \in FormIds : Dangling(formId) = {}

\* a store failed at the put of its index, after its record was written, while
\* the index of the form holds the id of another store
C31_Witness ==
    /\ stRet.outcome = "threw" /\ stRet.failedOp = "putIndex"
    /\ SubmissionKey(<<"f">>, stRet.id) \in DOMAIN kvSub
    /\ Len(ReadIndex(kvIndex, <<"f">>)) >= 1
    /\ stRet.id \notin Range(ReadIndex(kvIndex, <<"f">>))

(***************************************************************************)
(* The fixed window of checkRateLimit (ratelimit.ts:27-59, 68-94).         *)
(***************************************************************************)
\* the rate limiter on one working backend; the calls of a run all overlap freely
\* or are all made one after the other
InitWindow ==
    /\ kvOn \in BOOLEAN /\ dbOn \in BOOLEAN /\ kvOn # dbOn
    /\ serial \in BOOLEAN
    /\ maxRequests \in {1, MaxCalls - 1} /\ windowSeconds = 1
    /\ rateEnv = Some(True) /\ emailOn = FALSE
    /\ InitLimiter /\ InitStore /\ InitSubmit /\ InitAdmin
SpecWindow == InitWindow /\ [][NextRace]_vars

\* the identifier has a stored window that has not reached its resetAt
Unexpired(identifier) ==
    LET w == Stored(kvRate, dbRate, identifier)
    IN  w # Null /\ clock < w[1].resetAt

\* no step changes the resetAt of a stored window that has not reached it
ResetAtKept ==
    \A i \in Identifiers :
        Unexpired(i)
        => /\ Stored(kvRate', dbRate', i) # Null
           /\ Stored(kvRate', dbRate', i)[1].resetAt = Stored(kvRate, dbRate, i)[1].resetAt

\* a call made at or after the resetAt of the stored window is allowed
RolloverAllowed ==
    \A p \in Procs :
        (/\ Returns(p)
         /\ rl[p].prev # Null
         /\ rl[p].now >= rl[p].prev[1].resetAt)
        => ret'.allowed

C33_ExpiryCoversWindow ==
    \A i \in Identifiers :
        RateKey(i) \in DOMAIN kvRate
        => /\ kvRate[RateKey(i)].expiration >= kvRate[RateKey(i)].resetAt
           /\ (clock < kvRate[RateKey(i)].resetAt
                => KvGet(kvRate, RateKey(i), clock)
                     = Some([count |-> kvRate[RateKey(i)].count,
                             resetAt |-> kvRate[RateKey(i)].resetAt]))

\* a window created at 0 was incremented half a window later: the put set the
\* expiration one full second after the increment, past the resetAt
C33_Witness ==
    /\ kvOn
    /\ RateKey("ip1") \in DOMAIN kvRate
    /\ kvRate[RateKey("ip1")].count = 2
    /\ kvRate[RateKey("ip1")].resetAt = WindowMs
    /\ kvRate[RateKey("ip1")].expiration > kvRate[RateKey("ip1")].resetAt

(***************************************************************************)
(* Paging on the log backend (storage.ts:101-117).                         *)
(***************************************************************************)
\* C34: on the log backend, with no store in between and limit l >= 1: the page
\* getSubmissions(f, l, 0) followed by the page getSubmissions(f, l, l) is
\* getSubmissions(f, 2l, 0), the two pages together are the first 2l ids of the
\* index, each once, and a page whose offset is at or past the length of the
\* index is empty.
C34_PagesPartitionIndex ==
    (got.op = "list" /\ got.outcome = "ok" /\ got.backend = "kv" /\ got.limit >= 1)
    => LET f == got.formId
           l == got.limit
           next == KvPage(kvSub, kvIndex, f, l, got.offset + l)
           both == got.result \o next
       IN  /\ got.offset = 0
               => /\ both = KvPage(kvSub, kvIndex, f, 2 * l, 0)
                  /\ IdsOf(both) = Slice(ReadIndex(kvIndex, f), 0, 2 * l)
                  /\ \A i, j \in 1..Len(both) : i # j => both[i].id # both[j].id
           /\ got.offset >= Len(ReadIndex(kvIndex, f)) => got.result = << >>

\* the index of the form holds two ids: the first page of one entry was read and
\* the page after it holds the other entry
C34_Witness ==
    /\ got.op = "list" /\ got.outcome = "ok" /\ got.backend = "kv"
    /\ got.limit = 1 /\ got.offset = 0
    /\ Len(ReadIndex(kvIndex, got.formId)) = 2
    /\ Len(got.result) = 1
    /\ Len(KvPage(kvSub, kvIndex, got.formId, 1, 1)) = 1

(***************************************************************************)
(* Two runs of checkRateLimit side by side: the run with the calls of all  *)
(* identifiers, and for each identifier the run in which only its calls    *)
(* are made, at the same times and with their steps in the same order.     *)
(***************************************************************************)
\* the result of a call that returns in the run of its identifier alone
SoloReturn(s, p, result, outcome) ==
    [s EXCEPT !.plan[p] = << >>,
              !.ret = [allowed |-> result.allowed, retryAfter |-> result.retryAfter,
                       outcome |-> outcome]]

\* the read of p and the decision, on the backends of the run of its identifier
SoloRead(p) ==
    LET r == rl[p]
        s == solo[r.identifier]
        existing == IF UsesKv THEN KvGet(s.kv, RateKey(r.identifier), clock)
                    ELSE DbSelect(s.db, RateKey(r.identifier))
        plan == IF UsesKv THEN KvPlan(existing, r.now, maxRequests, windowSeconds)
                ELSE DbPlan(existing, r.now, maxRequests, windowSeconds)
        result == Decision(existing, r.now, maxRequests)
    IN  solo' = [solo EXCEPT ![r.identifier] =
                    IF plan = << >> THEN SoloReturn(s, p, result, "ok")
                    ELSE [s EXCEPT !.plan[p] = plan, !.result[p] = result]]

\* one write of the plan on the backends of the run of the identifier
SoloApply(s, op, key) ==
    CASE op.op = "put" -> [s EXCEPT !.kv = KvPut(s.kv, key, op.value, op.ttl, clock)]
      [] op.op = "delete" -> [s EXCEPT !.db = DbDelete(s.db, key)]
      [] op.op = "insert" -> [s EXCEPT !.db = DbInsert(s.db, key, op.row)]
      [] op.op = "update" -> [s EXCEPT !.db = DbUpdate(s.db, key)]

\* the next write of p in the run of its identifier
SoloWrite(p) ==
    LET r == rl[p]
        s == solo[r.identifier]
        key == RateKey(r.identifier)
    IN  solo' = [solo EXCEPT ![r.identifier] =
                    IF s.plan[p] = << >> THEN s
                    ELSE IF Head(s.plan[p]).op = "insert" /\ DbInsertFails(s.db, key)
                         THEN SoloReturn(s, p, DbCatch, "caught")
                         ELSE LET t == SoloApply(s, Head(s.plan[p]), key)
                              IN  IF Tail(s.plan[p]) = << >>
                                  THEN SoloReturn(t, p, s.result[p], "ok")
                                  ELSE [t EXCEPT !.plan[p] = Tail(s.plan[p])]]

PairStarts ==
    /\ \E p \in Procs, identifier \in Identifiers : RlStart(p, identifier)
    /\ UNCHANGED <<configVars, soloVars, adminVars, clientVars, raceVars, storeVars, submitVars>>

PairReads ==
    /\ \E p \in Procs : RlRead(p) /\ SoloRead(p)
    /\ UNCHANGED <<configVars, adminVars, clientVars, raceVars, storeVars, submitVars>>
    /\ UNCHANGED twin

PairWrites ==
    /\ \E p \in Procs : RlWrite(p) /\ SoloWrite(p)
    /\ UNCHANGED <<configVars, adminVars, clientVars, raceVars, storeVars, submitVars>>
    /\ UNCHANGED twin

NextPair ==
    \/ PairStarts
    \/ PairReads
    \/ PairWrites
    \/ RaceTick

\* the rate limiter on one working backend; the calls of a run all overlap freely
\* or are all made one after the other
InitPair ==
    /\ kvOn \in BOOLEAN /\ dbOn \in BOOLEAN /\ kvOn # dbOn
    /\ serial \in BOOLEAN
    /\ maxRequests \in {1, MaxCalls - 1} /\ windowSeconds = 1
    /\ rateEnv = Some(True) /\ emailOn = FALSE
    /\ InitLimiter /\ InitStore /\ InitSubmit /\ InitAdmin
SpecPair == InitPair /\ [][NextPair]_vars

\* the window of the identifier on a backend, null when there is none
WindowOn(store, identifier) ==
    IF RateKey(identifier) \in DOMAIN store THEN Some(store[RateKey(identifier)])
    ELSE Null

\* C35: the windows of different identifiers do not interfere: in the run with
\* the calls of all identifiers, the window of an identifier, the writes its
\* pending calls are about to make and the result of its latest call are those of
\* the run in which only the calls for that identifier are made.
C35_IdentifiersIndependent ==
    \A i \in Identifiers :
        /\ WindowOn(kvRate, i) = WindowOn(solo[i].kv, i)
        /\ WindowOn(dbRate, i) = WindowOn(solo[i].db, i)
        /\ \A p \in Procs :
              (rl[p].pc = "write" /\ rl[p].identifier = i)
              => (rl[p].plan = solo[i].plan[p] /\ rl[p].result = solo[i].result[p])
        /\ (ret.identifier = i /\ ret.outcome # "none")
              => solo[i].ret = [allowed |-> ret.allowed, retryAfter |-> ret.retryAfter,
                                outcome |-> ret.outcome]

\* the other identifier has used up its window and was denied, and a call for
\* this one is allowed as its first
C35_Witness ==
    /\ maxRequests = 1
    /\ solo["ip1"].ret.outcome = "ok" /\ ~solo["ip1"].ret.allowed
    /\ ret.identifier = "ip2" /\ ret.outcome = "ok" /\ ret.allowed
    /\ WindowOn(IF UsesKv THEN kvRate ELSE dbRate, "ip2") # Null
    /\ WindowOn(IF UsesKv THEN kvRate ELSE dbRate, "ip2")[1].count = 1

(***************************************************************************)
(* The two branches of checkRateLimit side by side: the calls are made one *)
(* after the other on the log backend, and the same calls (identifier and  *)
(* Date.now()) are made on the table backend.                              *)
(***************************************************************************)
\* the statements of a plan run one after the other on the table; an INSERT that
\* meets the primary key ends in the catch
RECURSIVE RunPlan(_, _, _, _)
RunPlan(s, plan, key, result) ==
    IF plan = << >>
    THEN [s EXCEPT !.ret = [allowed |-> result.allowed, retryAfter |-> result.retryAfter,
                            outcome |-> "ok"]]
    ELSE IF Head(plan).op = "insert" /\ DbInsertFails(s.db, key)
         THEN [s EXCEPT !.ret = [allowed |-> DbCatch.allowed,
                                 retryAfter |-> DbCatch.retryAfter,
                                 outcome |-> "caught"]]
         ELSE RunPlan(SoloApply(s, Head(plan), key), Tail(plan), key, result)

\* kv.get found the window gone by its expiration although the call read
\* Date.now() before the resetAt of the window
ExpiredBeforeReset(p) ==
    LET key == RateKey(rl[p].identifier)
    IN  /\ key \in DOMAIN kvRate
        /\ rl[p].now < kvRate[key].resetAt
        /\ KvGet(kvRate, key, clock) = Null

\* the call of p on the table backend: SELECT, decision, statements
TwinCall(p) ==
    LET r == rl[p]
        key == RateKey(r.identifier)
        existing == DbSelect(twin.db, key)
    IN  twin' = RunPlan([twin EXCEPT !.early = @ \/ ExpiredBeforeReset(p)],
                        DbPlan(existing, r.now, maxRequests, windowSeconds), key,
                        Decision(existing, r.now, maxRequests))

TwinStarts ==
    /\ \E p \in Procs, identifier \in Identifiers : RlStart(p, identifier)
    /\ UNCHANGED <<configVars, soloVars, adminVars, clientVars, raceVars, storeVars, submitVars>>

TwinReads ==
    /\ \E p \in Procs : RlRead(p) /\ TwinCall(p)
    /\ UNCHANGED <<configVars, solo, adminVars, clientVars, raceVars, storeVars, submitVars>>

TwinWrites ==
    /\ \E p \in Procs : RlWrite(p)
    /\ UNCHANGED <<configVars, soloVars, adminVars, clientVars, raceVars, storeVars, submitVars>>

NextTwin ==
    \/ TwinStarts
    \/ TwinReads
    \/ TwinWrites
    \/ RaceTick

\* the log backend is configured, the calls are made one after the other and no
\* backend operation fails
InitTwin ==
    /\ kvOn = TRUE /\ dbOn = FALSE /\ serial = TRUE
    /\ maxRequests \in Limits /\ windowSeconds \in Windows
    /\ rateEnv = Some(True) /\ emailOn = FALSE
    /\ InitLimiter /\ InitStore /\ InitSubmit /\ InitAdmin
SpecTwin == InitTwin /\ [][NextTwin]_vars

\* the latest call has returned on both backends with the same result, and the
\* backends hold the same count and resetAt for every identifier
SameOnBoth ==
    /\ twin.ret = [allowed |-> ret.allowed, retryAfter |-> ret.retryAfter,
                   outcome |-> ret.outcome]
    /\ \A i \in Identifiers :
          Stored(kvRate, dbRate, i) = DbSelect(twin.db, RateKey(i))

\* C36 as stated: for calls made one after the other on working backends, with
\* the same identifiers, limits and call times, the log backend and the table
\* backend return the same results and hold the same count and resetAt per
\* identifier after each call.
C36_BackendsAgree ==
    (InFlight = {} /\ ret.outcome # "none") => SameOnBoth

\* C36, amended: the same, as long as no call that read Date.now() before the
\* resetAt of the stored window had its kv.get served after the expiration of
\* the key.
C36_BackendsAgreeUntilExpiry ==
    (InFlight = {} /\ ret.outcome # "none" /\ ~twin.early) => SameOnBoth

\* three calls for one identifier with a limit of 1: allowed, denied with
\* retryAfter 1, and allowed in a new window, on both backends
C36_Witness ==
    /\ InFlight = {} /\ ~twin.early
    /\ maxRequests = 1 /\ seen["ip1"].n = 3
    /\ ret.outcome = "ok" /\ ret.allowed
    /\ twin.ret.outcome = "ok" /\ twin.ret.allowed
    /\ DbSelect(twin.db, RateKey("ip1")) # Null
    /\ DbSelect(twin.db, RateKey("ip1"))[1].resetAt = seen["ip1"].first + 2 * WindowMs

(***************************************************************************)
(* The two backends of the store side by side (storage.ts:22-120).         *)
(***************************************************************************)
\* the rows the table backend holds for the form after the same storeSubmission
\* calls: one INSERT per call, in the order of the calls
RowsOf(formId) ==
    [k \in 1..Len(created[formId]) |->
        Row(created[formId][k],
            [formId |-> stored[created[formId][k]].formId,
             data |-> stored[created[formId][k]].data,
             metadata |-> stored[created[formId][k]].metadata])]

\* C37: storeSubmission calls made one after the other, no more per form than the
\* index keeps: for every form, limit >= 0 and offset >= 0, getSubmissions on the
\* table backend returns what getSubmissions on the log backend returns (the
\* same submissions in the same order), whatever timestamps they carry.
C37_BackendsListAlike ==
    (serial /\ Backend = "kv" /\ Storing = {})
    => \A formId \in FormIds :
          Len(created[formId]) <= IndexCap
          => \A limit \in 0..MaxPage, offset \in 0..MaxOffset :
                \A order \in Orderings(RowsOf(formId), formId) :
                    DbPage(RowsOf(formId), order, limit, offset)
                      = KvPage(kvSub, kvIndex, formId, limit, offset)

(***************************************************************************)
(* getSubmission for any query string (storage.ts:125-162).                *)
(***************************************************************************)
\* the ids asked for: the ids nanoid() may produce, and strings with a ':' that
\* are the end of a key submission:{formId}:{id}
Queries == Ids \cup {formId \o <<":">> \o id : formId \in FormIds, id \in Ids}

LookupStores ==
    /\ \E p \in Procs, formId \in FormIds, id \in Ids :
          StStart(p, formId, [data |-> [name |-> "A"], turnstileScore |-> Undefined],
                  1, id)
    /\ UNCHANGED <<configVars, soloVars, adminVars, clientVars, raceVars, rateVars, submitVars>>

LookupGets ==
    /\ \E submissionId \in Queries : GetSubmission(submissionId)
    /\ UNCHANGED <<configVars, soloVars, adminVars, clientVars, raceVars, rateVars, submitVars>>

NextLookup ==
    \/ LookupStores
    \/ StoreInserts
    \/ StorePutsRecord
    \/ StoreGetsIndex
    \/ StorePutsIndex
    \/ LookupGets

\* one backend is configured, the calls are made one after the other
InitLookup ==
    /\ kvOn \in BOOLEAN /\ dbOn \in BOOLEAN /\ kvOn # dbOn
    /\ serial = TRUE
    /\ maxRequests = 1 /\ windowSeconds = 1
    /\ rateEnv = Some(True) /\ emailOn = FALSE
    /\ InitLimiter /\ InitStore /\ InitSubmit /\ InitAdmin
SpecLookup == InitLookup /\ [][NextLookup]_vars

\* C38: getSubmission(q) never returns a submission whose id differs from q: on
\* both backends and for every query string q, the result is null or a record
\* with id = q.
C38_FoundHasTheIdAsked ==
    (got.op = "get" /\ got.outcome = "ok" /\ got.result # Null)
    => got.result[1].id = got.submissionId

(***************************************************************************)
(* The client library in a document (form-handler.js:30-46, 70-108,        *)
(* 316-323): the forms are parsed, the script of the library runs,         *)
(* FormFlare.init is called, DOMContentLoaded fires, the user submits.     *)
(***************************************************************************)
\* formElement.addEventListener('submit', (e) => {...}): the listener is a new
\* function at each call, so each call adds a handler
AttachForm(handlers, formId) == [handlers EXCEPT ![formId] = @ + 1]

\* autoInitForms: attachForm for every form with data-formflare in the document
RECURSIVE AutoInitForms(_, _)
AutoInitForms(handlers, forms) ==
    IF forms = {} THEN handlers
    ELSE LET f == CHOOSE f \in forms : TRUE
         IN  AutoInitForms(AttachForm(handlers, f), forms \ {f})

\* the parser reaches a form with data-formflare
PageParsesForm(formId) ==
    /\ page.readyState = "loading"
    /\ formId \notin page.forms
    /\ page' = [page EXCEPT !.forms = @ \cup {formId}]

\* the script of the library runs: while the document is loading it listens for
\* DOMContentLoaded
PageLoadsLibrary ==
    /\ ~page.library
    /\ page' = [page EXCEPT !.library = TRUE,
                            !.listener = (page.readyState = "loading")]

\* FormFlare.init({workerUrl, turnstileSiteKey, autoInit})
PageInit(autoInit) ==
    /\ page.library /\ ~page.inited
    /\ page' = [page EXCEPT !.inited = TRUE, !.workerUrl = TRUE, !.autoInit = autoInit,
                            !.handlers = IF autoInit THEN AutoInitForms(@, page.forms)
                                         ELSE @]

\* the document has been parsed: DOMContentLoaded fires
PageDomContentLoaded ==
    /\ page.readyState = "loading"
    /\ page' = [page EXCEPT !.readyState = "interactive",
                            !.handlers = IF page.listener /\ page.workerUrl /\ page.autoInit
                                         THEN AutoInitForms(@, page.forms)
                                         ELSE @]

\* the user submits a form, having completed the verification: each submit
\* handler calls handleSubmit, which posts to /submit
PageSubmit(formId) ==
    /\ formId \in page.forms
    /\ page.submits < MaxAttempts
    /\ page' = [page EXCEPT !.submits = @ + 1, !.posts = page.handlers[formId]]

NextPage ==
    /\ \/ \E formId \in FormIds : PageParsesForm(formId)
       \/ PageLoadsLibrary
       \/ \E autoInit \in BOOLEAN : PageInit(autoInit)
       \/ PageDomContentLoaded
       \/ \E formId \in FormIds : PageSubmit(formId)
    /\ UNCHANGED <<client, configVars, soloVars, adminVars, raceVars, rateVars, storeVars, submitVars>>

SpecPage == InitClient /\ [][NextPage]_vars

\* C39: each form is attached at most once: after FormFlare.init with autoInit,
\* also when init runs while the document is still loading and the library's
\* DOMContentLoaded listener fires afterwards, a form with data-formflare has
\* one submit handler and one submit event causes at most one POST to /submit.
C39_FormAttachedOnce ==
    (page.inited /\ page.autoInit)
    => /\ \A formId \in FormIds : page.handlers[formId] <= 1
       /\ page.posts <= 1

====
